---- MODULE Spec2Model ----
(***************************************************************************)
(* KPI Drift Hunter: the SCD-2 tables (pair mapping, compare result,       *)
(* screengrab) and the operations that write them.                         *)
(*                                                                         *)
(* The record store is the hosted database: a table is a sequence of rows  *)
(* in insertion order and the store-generated id of a row of the pair and  *)
(* compare tables is its position.  A store write (update, insert) either  *)
(* takes effect or raises; the input "fault" of an operation names the     *)
(* write of that call that raises.                                         *)
(***************************************************************************)
EXTENDS Integers, Sequences, FiniteSets, TLC

VARIABLES pairTbl, cmpTbl, sgTbl, clock, last, wr, raced,
          map_scratch_left, map_scratch_right, sgRet,
          extTbl, cmp_llm, audit, arg

vars == <<pairTbl, cmpTbl, sgTbl, clock, last, wr, raced,
         map_scratch_left, map_scratch_right, sgRet,
         extTbl, cmp_llm, audit, arg>>

scratch == <<map_scratch_left, map_scratch_right>>
ext     == <<extTbl, cmp_llm, audit, arg>>

(* ------------------------------ bounds --------------------------------- *)
MaxClock    == 2
MaxPairRows == 2
MaxPairNo   == 2
MaxCmpRows  == 2
MaxUuid     == 3

(* --------------------------- value domains ----------------------------- *)
NoTime   == 0
LeftIds  == {"w1", "w2"}
RightIds == {"w3", "w4"}
Sessions == {"s1", "s2"}
PairNos  == 1..MaxPairNo
CallLeft  == {"w1"}
CallRight == {"w3", "w4"}
\* (left session, right session, pair number) of a direct call: a base
\* payload and one payload differing from it in each single field
CallPayloads == { <<"s1", "s2", 1>>, <<"s2", "s2", 1>>, <<"s1", "s1", 1>>, <<"s1", "s2", 2>> }
Urls     == {"u1", "u2"}
Contents == {"b1", "b2"}
Doms     == {"d1", "d2"}
Faults   == {"none", "update", "insert"}
Writers  == {1, 2}

TheOne(S) == CHOOSE x \in S : TRUE

(* ----------------------- pair-mapping table ---------------------------- *)
\* the session comparisons crossed over
SamePayloadCrossed(row, left_sess, right_sess, pair_number) ==
    /\ row.left_session_id = right_sess
    /\ row.right_session_id = left_sess
    /\ row.pair_number = pair_number

\* the pair-number comparison left out
SamePayloadNoNumber(row, left_sess, right_sess, pair_number) ==
    /\ row.left_session_id = left_sess
    /\ row.right_session_id = right_sess

SamePayload(row, left_sess, right_sess, pair_number) ==
    /\ row.left_session_id = left_sess
    /\ row.right_session_id = right_sess
    /\ row.pair_number = pair_number

CurrentPairRows(tbl, widget_left, widget_right) ==
    { i \in 1..Len(tbl) : /\ tbl[i].widget_id_left = widget_left
                          /\ tbl[i].widget_id_right = widget_right
                          /\ tbl[i].curr_rec_ind }

\* the update sets the end timestamp and leaves the current flag
EndDateNoFlag(tbl, pid, now_iso) ==
    [tbl EXCEPT ![pid].rec_eff_end_dt = now_iso]

\* the update clears the current flag and sets no end timestamp
EndDateFlagOnly(tbl, pid, now_iso) ==
    [tbl EXCEPT ![pid].curr_rec_ind = FALSE]

EndDatePair(tbl, pid, now_iso) ==
    [tbl EXCEPT ![pid].curr_rec_ind = FALSE, ![pid].rec_eff_end_dt = now_iso]

PairPayload(tbl, widget_left, widget_right, left_sess, right_sess, pair_number, now_iso) ==
    [ pair_id          |-> Len(tbl) + 1,
      widget_id_left   |-> widget_left,
      widget_id_right  |-> widget_right,
      left_session_id  |-> left_sess,
      right_session_id |-> right_sess,
      pair_number      |-> pair_number,
      rec_eff_end_dt   |-> NoTime,
      curr_rec_ind     |-> TRUE ]

\* One whole call.  sel is the row the limit-1 read returned (0: no row).
scd2_upsert_pair(tbl, sel, widget_left, widget_right, left_sess, right_sess, pair_number, now_iso, fault) ==
    IF sel # 0 /\ SamePayload(tbl[sel], left_sess, right_sess, pair_number)
    THEN [tbl |-> tbl, action |-> "unchanged", pair_id |-> sel]
    ELSE IF sel # 0 /\ fault = "update"
    THEN [tbl |-> tbl, action |-> "raised", pair_id |-> 0]
    ELSE LET t1 == IF sel # 0 THEN EndDatePair(tbl, sel, now_iso) ELSE tbl
         IN  IF fault = "insert"
             THEN [tbl |-> t1, action |-> "raised", pair_id |-> 0]
             ELSE [tbl |-> Append(t1, PairPayload(t1, widget_left, widget_right,
                                                  left_sess, right_sess, pair_number, now_iso)),
                   action |-> "inserted", pair_id |-> Len(t1) + 1]

ReadSel(tbl, widget_left, widget_right) ==
    IF CurrentPairRows(tbl, widget_left, widget_right) = {}
    THEN {0} ELSE CurrentPairRows(tbl, widget_left, widget_right)

(* ----------------------- compare-result table -------------------------- *)
MODEL_NAME == "pixtral-12b-2409"

CurrentCompareRows(tbl, pair_id, left_extraction_id, right_extraction_id, model_name) ==
    { i \in 1..Len(tbl) : /\ tbl[i].pair_id = pair_id
                          /\ tbl[i].left_extraction_id = left_extraction_id
                          /\ tbl[i].right_extraction_id = right_extraction_id
                          /\ tbl[i].model_name = model_name
                          /\ tbl[i].curr_rec_ind }

\* the update ... .eq(...).eq("curr_rec_ind", True): every matching row
EndDateCompare(tbl, ids, now_iso) ==
    [ i \in 1..Len(tbl) |->
        IF i \in ids
        THEN [tbl[i] EXCEPT !.curr_rec_ind = FALSE, !.rec_eff_end_dt = now_iso]
        ELSE tbl[i] ]

ComparePayload(tbl, pair_id, left_extraction_id, right_extraction_id, left_widget_id, right_widget_id, model_name, verdict, confidence) ==
    [ compare_id          |-> Len(tbl) + 1,
      pair_id             |-> pair_id,
      left_extraction_id  |-> left_extraction_id,
      right_extraction_id |-> right_extraction_id,
      left_widget_id      |-> left_widget_id,
      right_widget_id     |-> right_widget_id,
      model_name          |-> model_name,
      verdict             |-> verdict,
      confidence          |-> confidence,
      rec_eff_end_dt      |-> NoTime,
      curr_rec_ind        |-> TRUE ]

\* fault "update": the update raises APIError, which the code swallows;
\* fault "insert": the insert raises, which the code lets through.
scd2_upsert_compare(tbl, pair_id, left_extraction_id, right_extraction_id, left_widget_id, right_widget_id, verdict, confidence, now_iso, fault) ==
    LET model_name == MODEL_NAME
        t1 == IF fault = "update" THEN tbl
              ELSE EndDateCompare(tbl, CurrentCompareRows(tbl, pair_id, left_extraction_id,
                                                          right_extraction_id, model_name), now_iso)
    IN  IF fault = "insert"
        THEN [tbl |-> t1, raised |-> TRUE, compare_id |-> 0]
        ELSE [tbl |-> Append(t1, ComparePayload(t1, pair_id, left_extraction_id, right_extraction_id,
                                                left_widget_id, right_widget_id,
                                                model_name, verdict, confidence)),
              raised |-> FALSE, compare_id |-> Len(t1) + 1]

(* -------------------------- screengrab table --------------------------- *)
\* SHA-256 of the content: distinct contents have distinct digests
sha256_hex(b) == <<"sha256", b>>

\* uuid.uuid4(): an id that was never generated before
uuid4(tbl, returned) ==
    LET used == { tbl[i].screengrab_id : i \in 1..Len(tbl) } \cup { r.id : r \in returned }
    IN  CHOOSE u \in (1..MaxUuid) \ used : \A v \in (1..MaxUuid) \ used : u <= v

ScreengrabRow(id, session_id, url, full_png_bytes) ==
    [ screengrab_id        |-> id,
      capture_session_id   |-> session_id,
      url                  |-> url,
      screengrab_hashvalue |-> sha256_hex(full_png_bytes),
      curr_rec_ind         |-> TRUE ]

RowsWithHash(tbl, h) == { i \in 1..Len(tbl) : tbl[i].screengrab_hashvalue = h }

\* the fallback read without its filter: the first row of the table
FetchFirstRow(tbl, h) == IF Len(tbl) > 0 THEN {1} ELSE {}

\* select * where screengrab_hashvalue = h limit 1
FetchByHash(tbl, h) == RowsWithHash(tbl, h)

\* the insert: rejected by unique(screengrab_hashvalue) when the digest is
\* stored already, and failing on a store error (fault = "error")
InsertRejected(tbl, row, fault) ==
    RowsWithHash(tbl, row.screengrab_hashvalue) # {} \/ fault = "error"

upsert_screengrab(tbl, row, fault) ==
    IF ~InsertRejected(tbl, row, fault)
    THEN [tbl |-> Append(tbl, row), row |-> row, how |-> "inserted"]
    ELSE LET data == FetchByHash(tbl, row.screengrab_hashvalue)
         IN  IF data # {}
             THEN [tbl |-> tbl, row |-> tbl[TheOne(data)], how |-> "fetched"]
             ELSE [tbl |-> tbl, row |-> row, how |-> "unsaved"]

\* the scan page's copy of the same insert-or-fetch
insert_screengrab_row(tbl, row, fault) ==
    IF ~InsertRejected(tbl, row, fault)
    THEN [tbl |-> Append(tbl, row), row |-> row, how |-> "inserted"]
    ELSE LET data == FetchByHash(tbl, row.screengrab_hashvalue)
         IN  IF data # {}
             THEN [tbl |-> tbl, row |-> tbl[TheOne(data)], how |-> "fetched"]
             ELSE [tbl |-> tbl, row |-> row, how |-> "unsaved"]

(* ------------------------------- Init ---------------------------------- *)
IdleWriter == [pc |-> "idle"]

NoArg == [f |-> "none"]

\* the tables, the page state and the storage bucket before the first run
InitTables ==
    /\ pairTbl = << >>
    /\ cmpTbl = << >>
    /\ sgTbl = << >>
    /\ clock = 1
    /\ last = [op |-> "none"]
    /\ wr = [w \in Writers |-> IdleWriter]
    /\ raced = {}
    /\ map_scratch_left = [w \in LeftIds |-> 0]
    /\ map_scratch_right = [w \in RightIds |-> 0]
    /\ sgRet = {}
    /\ extTbl = << >>
    /\ cmp_llm = [built |-> FALSE, extract_cols |-> {}]
    /\ audit = << >>

Init == InitTables /\ arg = NoArg

Tick ==
    /\ clock < MaxClock
    /\ clock' = clock + 1
    /\ UNCHANGED <<pairTbl, cmpTbl, sgTbl, last, wr, raced, scratch, sgRet, ext>>

(* ------------- a non-interleaved scd2_upsert_pair submission ----------- *)
UpsertPairOn(lefts, rights, payloads) ==
    \E widget_left \in lefts, widget_right \in rights,
       pl \in payloads, fault \in Faults :
      \E sel \in ReadSel(pairTbl, widget_left, widget_right) :
        LET out == scd2_upsert_pair(pairTbl, sel, widget_left, widget_right,
                                    pl[1], pl[2], pl[3], clock, fault)
        IN  /\ Len(out.tbl) <= MaxPairRows
            /\ pairTbl' = out.tbl
            /\ last' = IF out.action = "raised"
                       THEN [op |-> "pair", action |-> "raised"]
                       ELSE [op |-> "pair", wl |-> widget_left, wrt |-> widget_right,
                             ls |-> pl[1], rs |-> pl[2], pn |-> pl[3],
                             action |-> out.action, pair_id |-> out.pair_id]
            /\ UNCHANGED <<cmpTbl, sgTbl, clock, wr, raced, scratch, sgRet, ext>>

UpsertPair == UpsertPairOn(CallLeft, CallRight, CallPayloads)

Next ==
    \/ Tick
    \/ UpsertPair

Spec == Init /\ [][Next]_vars

(* --------- both SCD-2 tables: pair mappings and compare results --------- *)
ScdPayloads == { <<"s1", "s2", 1>>, <<"s1", "s2", 2>> }
Verdicts    == {"Matched", "NotMatched"}
\* confidences are counted in hundredths: 1.0 is 100
FullConfidence == 100

UpsertPairScd == UpsertPairOn({"w1"}, {"w3"}, ScdPayloads)

UpsertCompare ==
    \E pair_id \in {1}, left_extraction_id \in {"e1"}, right_extraction_id \in {"e2", "e3"},
       verdict \in Verdicts, fault \in Faults :
        LET out == scd2_upsert_compare(cmpTbl, pair_id, left_extraction_id, right_extraction_id,
                                       "w1", "w3", verdict, FullConfidence, clock, fault)
        IN  /\ Len(out.tbl) <= MaxCmpRows
            /\ cmpTbl' = out.tbl
            /\ last' = [op |-> "compare", raised |-> out.raised, compare_id |-> out.compare_id]
            /\ UNCHANGED <<pairTbl, sgTbl, clock, wr, raced, scratch, sgRet, ext>>

NextScd ==
    \/ Tick
    \/ UpsertPairScd
    \/ UpsertCompare

SpecScd == Init /\ [][NextScd]_vars

(* ------------------- "Persist mapping" form handler -------------------- *)
\* the widgets listed on each side are the parsed widgets of the chosen
\* sessions: LeftIds of left_session, RightIds of right_session
left_session  == "s1"
right_session == "s2"
ScratchNos    == 0..MaxPairNo

\* _add keeps a number only when it is > 0
pairs_scratch(scratch_left, scratch_right) ==
    [ k \in { n \in PairNos : \/ \E w \in DOMAIN scratch_left : scratch_left[w] = n
                              \/ \E w \in DOMAIN scratch_right : scratch_right[w] = n } |->
        [ left  |-> { w \in DOMAIN scratch_left : scratch_left[w] = k },
          right |-> { w \in DOMAIN scratch_right : scratch_right[w] = k } ] ]

\* the loop over sorted(pairs_scratch) from number k on; faultK is the pair
\* number whose upsert meets the failing store write faultOp.  An exception
\* of scd2_upsert_pair leaves the loop and the handler.
RECURSIVE persist_loop(_, _, _, _, _, _, _, _, _)
persist_loop(ps, k, tbl, save_rows, issues, issued, now_iso, faultK, faultOp) ==
    IF k > MaxPairNo
    THEN [tbl |-> tbl, save_rows |-> save_rows, issues |-> issues,
          issued |-> issued, raised |-> 0]
    ELSE IF k \notin DOMAIN ps
    THEN persist_loop(ps, k + 1, tbl, save_rows, issues, issued, now_iso, faultK, faultOp)
    ELSE IF Cardinality(ps[k].left) = 1 /\ Cardinality(ps[k].right) = 1
    THEN LET l   == TheOne(ps[k].left)
             r   == TheOne(ps[k].right)
             res == scd2_upsert_pair(tbl, TheOne(ReadSel(tbl, l, r)), l, r,
                                     left_session, right_session, k, now_iso,
                                     IF k = faultK THEN faultOp ELSE "none")
         IN  IF res.action = "raised"
             THEN [tbl |-> res.tbl, save_rows |-> << >>, issues |-> << >>,
                   issued |-> issued \cup {k}, raised |-> k]
             ELSE persist_loop(ps, k + 1, res.tbl,
                               Append(save_rows, [pair_number |-> k, left |-> l, right |-> r,
                                                  action |-> res.action, pair_id |-> res.pair_id]),
                               issues, issued \cup {k}, now_iso, faultK, faultOp)
    ELSE persist_loop(ps, k + 1, tbl, save_rows,
                      Append(issues, [pair_number |-> k, left_ids |-> ps[k].left,
                                      right_ids |-> ps[k].right]),
                      issued, now_iso, faultK, faultOp)

persist_clicked(tbl, scratch_left, scratch_right, now_iso, faultK, faultOp) ==
    persist_loop(pairs_scratch(scratch_left, scratch_right), 1, tbl,
                 << >>, << >>, {}, now_iso, faultK, faultOp)

BatchFaults == {<<0, "none">>} \cup (PairNos \X {"update", "insert"})

\* a number typed into one widget's "Pair #" input of the form
TypePairNumber ==
    /\ \E val \in ScratchNos :
          \/ \E w \in LeftIds :
                /\ map_scratch_left' = [map_scratch_left EXCEPT ![w] = val]
                /\ UNCHANGED map_scratch_right
          \/ \E w \in RightIds :
                /\ map_scratch_right' = [map_scratch_right EXCEPT ![w] = val]
                /\ UNCHANGED map_scratch_left
    /\ last' = [op |-> "form"]
    /\ UNCHANGED <<pairTbl, cmpTbl, sgTbl, clock, wr, raced, sgRet, ext>>

PersistClicked ==
    \E f \in BatchFaults :
        LET out == persist_clicked(pairTbl, map_scratch_left, map_scratch_right,
                                   clock, f[1], f[2])
        IN  /\ Len(out.tbl) <= MaxPairRows
            /\ pairTbl' = out.tbl
            /\ last' = [op |-> "batch", issued |-> out.issued, raised |-> out.raised,
                        save_rows |-> out.save_rows, issues |-> out.issues]
            /\ UNCHANGED <<cmpTbl, sgTbl, clock, wr, raced, scratch, sgRet, ext>>

NextBatch ==
    \/ TypePairNumber
    \/ PersistClicked

SpecBatch == Init /\ [][NextBatch]_vars

(* ------------------------ screengrab captures -------------------------- *)
SgFaults == {"none", "error"}

UpsertScreengrab ==
    \E session_id \in Sessions, url \in Urls, full_png_bytes \in Contents, fault \in SgFaults :
        /\ (1..MaxUuid) \ ({ sgTbl[i].screengrab_id : i \in 1..Len(sgTbl) }
                             \cup { r.id : r \in sgRet }) # {}
        /\ LET row == ScreengrabRow(uuid4(sgTbl, sgRet), session_id, url, full_png_bytes)
               out == upsert_screengrab(sgTbl, row, fault)
           IN  /\ sgTbl' = out.tbl
               /\ sgRet' = sgRet \cup {[bytes |-> full_png_bytes, id |-> out.row.screengrab_id]}
               /\ last' = [op |-> "sg", bytes |-> full_png_bytes, fault |-> fault,
                           how |-> out.how, row |-> out.row]
        /\ UNCHANGED <<pairTbl, cmpTbl, clock, wr, raced, scratch, ext>>

\* _browser_try: the screengrab row of one page load, keyed by the digest
\* of the page's DOM
BrowserTryScreengrab ==
    \E session_id \in Sessions, url \in Urls, dom_html \in Doms, fault \in SgFaults :
        /\ (1..MaxUuid) \ ({ sgTbl[i].screengrab_id : i \in 1..Len(sgTbl) }
                             \cup { r.id : r \in sgRet }) # {}
        /\ LET sg_row == ScreengrabRow(uuid4(sgTbl, sgRet), session_id, url, dom_html)
               out    == insert_screengrab_row(sgTbl, sg_row, fault)
           IN  /\ sgTbl' = out.tbl
               /\ sgRet' = sgRet \cup {[bytes |-> dom_html, id |-> out.row.screengrab_id]}
               /\ last' = [op |-> "scan", bytes |-> dom_html, fault |-> fault,
                           how |-> out.how, row |-> out.row]
        /\ UNCHANGED <<pairTbl, cmpTbl, clock, wr, raced, scratch, ext>>

NextSg ==
    \/ UpsertScreengrab
    \/ BrowserTryScreengrab

SpecSg == Init /\ [][NextSg]_vars

(* ---- scd2_upsert_pair statement by statement, several writers at once --- *)
\* a writer that has read the key and has not yet inserted
Between(v, widget_left, widget_right) ==
    /\ wr[v].pc \in {"update", "insert"}
    /\ wr[v].wl = widget_left
    /\ wr[v].wrt = widget_right

ConcPayloads == { <<"s1", "s2", 1>>, <<"s1", "s2", 2>> }

WBegin(w) ==
    /\ wr[w].pc = "idle"
    /\ \E widget_left \in CallLeft, widget_right \in CallRight, pl \in ConcPayloads :
          wr' = [wr EXCEPT ![w] = [pc |-> "select", wl |-> widget_left, wrt |-> widget_right,
                                   ls |-> pl[1], rs |-> pl[2], pn |-> pl[3],
                                   now |-> clock, sel |-> 0]]
    /\ UNCHANGED <<pairTbl, cmpTbl, sgTbl, clock, last, raced, scratch, sgRet, ext>>

WSelect(w) ==
    /\ wr[w].pc = "select"
    /\ \E sel \in ReadSel(pairTbl, wr[w].wl, wr[w].wrt) :
          wr' = [wr EXCEPT ![w] =
                    IF sel # 0 /\ SamePayload(pairTbl[sel], wr[w].ls, wr[w].rs, wr[w].pn)
                    THEN IdleWriter
                    ELSE [wr[w] EXCEPT !.sel = sel,
                                       !.pc = IF sel # 0 THEN "update" ELSE "insert"]]
    /\ raced' = IF \E v \in Writers \ {w} : Between(v, wr[w].wl, wr[w].wrt)
                THEN raced \cup {<<wr[w].wl, wr[w].wrt>>}
                ELSE raced
    /\ UNCHANGED <<pairTbl, cmpTbl, sgTbl, clock, last, scratch, sgRet, ext>>

WUpdate(w) ==
    /\ wr[w].pc = "update"
    /\ \E fault \in {"none", "update"} :
          IF fault = "update"
          THEN /\ wr' = [wr EXCEPT ![w] = IdleWriter]
               /\ UNCHANGED pairTbl
          ELSE /\ pairTbl' = EndDatePair(pairTbl, wr[w].sel, wr[w].now)
               /\ wr' = [wr EXCEPT ![w].pc = "insert"]
    /\ UNCHANGED <<cmpTbl, sgTbl, clock, last, raced, scratch, sgRet, ext>>

WInsert(w) ==
    /\ wr[w].pc = "insert"
    /\ \E fault \in {"none", "insert"} :
          IF fault = "insert"
          THEN UNCHANGED pairTbl
          ELSE /\ Len(pairTbl) < MaxPairRows
               /\ pairTbl' = Append(pairTbl, PairPayload(pairTbl, wr[w].wl, wr[w].wrt,
                                                          wr[w].ls, wr[w].rs, wr[w].pn, wr[w].now))
    /\ wr' = [wr EXCEPT ![w] = IdleWriter]
    /\ UNCHANGED <<cmpTbl, sgTbl, clock, last, raced, scratch, sgRet, ext>>

NextConc ==
    \/ \E w \in Writers : WBegin(w)
    \/ \E w \in Writers : WSelect(w)
    \/ \E w \in Writers : WUpdate(w)
    \/ \E w \in Writers : WInsert(w)

SpecConc == Init /\ [][NextConc]_vars

(* ----------------------- capture_url (scan page) ----------------------- *)
\* the engines the other way round
EnginesWebkitFirst == <<"webkit", "chromium">>

Engines == <<"chromium", "webkit">>

\* how one engine attempt ends: it returns, or it raises at the launch of
\* the browser, or while the page loads (before the screengrab row), or
\* while the widgets are cropped and inserted (after the screengrab row)
Attempts == {"ok", "launch", "load", "widgets"}

\* what an attempt does to its browser, in order
Launched(engine) == << <<"try", engine>>, <<"launch", engine>>, <<"new_context", engine>> >>
Closed(engine)   == << <<"ctx.close", engine>>, <<"browser.close", engine>> >>

\* One attempt with one engine.  e is the exception's message.
browser_try(tbl, returned, engine, url, session_id, dom_html, attempt) ==
    IF attempt = "launch"
    THEN [tbl |-> tbl, ok |-> FALSE, e |-> "launch", sg_db |-> <<>>,
          log |-> << <<"try", engine>>, <<"raised", engine>> >>]
    ELSE IF attempt = "load"
    THEN [tbl |-> tbl, ok |-> FALSE, e |-> "load", sg_db |-> <<>>,
          log |-> Launched(engine) \o << <<"raised", engine>> >>]
    ELSE LET sg_row == ScreengrabRow(uuid4(tbl, returned), session_id, url, dom_html)
             out    == insert_screengrab_row(tbl, sg_row, "none")
         IN  IF attempt = "widgets"
             THEN [tbl |-> out.tbl, ok |-> FALSE, e |-> "widgets", sg_db |-> <<>>,
                   log |-> Launched(engine) \o << <<"raised", engine>> >>]
             ELSE [tbl |-> out.tbl, ok |-> TRUE, e |-> "", sg_db |-> <<out.row>>,
                   log |-> Launched(engine) \o Closed(engine) \o << <<"returned", engine>> >>]

\* last_err = f"[{engine}] {e}...": one entry, and every assignment
\* replaces the entry of the attempt before
ErrEntry(engine, e) == << <<engine, e>> >>

KeepLastErr(last_err, engine, e) == ErrEntry(engine, e)

\* the exit of `with sync_playwright() as p`: the Playwright instance is
\* stopped; no close() of a browser or of a context is called here
WithExit == << <<"stop", "sync_playwright">> >>

RECURSIVE capture_loop(_, _, _, _, _, _, _, _, _)
capture_loop(i, tbl, returned, last_err, url, session_id, dom_html, attempts, log) ==
    IF i > Len(Engines)
    THEN [tbl |-> tbl, outcome |-> "raised",
          message |-> ErrEntry("RuntimeError", "All capture attempts failed.") \o last_err,
          screengrab |-> <<>>, log |-> log \o WithExit]
    ELSE LET t == browser_try(tbl, returned, Engines[i], url, session_id, dom_html, attempts[i])
         IN  IF t.ok
             THEN [tbl |-> t.tbl, outcome |-> "returned", message |-> <<>>, screengrab |-> t.sg_db,
                   log |-> log \o t.log \o WithExit]
             ELSE capture_loop(i + 1, t.tbl, returned, KeepLastErr(last_err, Engines[i], t.e),
                               url, session_id, dom_html, attempts, log \o t.log)

capture_url(tbl, returned, url, session_id, dom_html, attempts) ==
    capture_loop(1, tbl, returned, <<>>, url, session_id, dom_html, attempts, <<>>)

CaptureUrl ==
    \E url \in Urls, session_id \in Sessions, dom_html \in Doms,
       attempts \in [1..Len(Engines) -> Attempts] :
        /\ (1..MaxUuid) \ ({ sgTbl[i].screengrab_id : i \in 1..Len(sgTbl) }
                             \cup { r.id : r \in sgRet }) # {}
        /\ LET out == capture_url(sgTbl, sgRet, url, session_id, dom_html, attempts)
           IN  /\ sgTbl' = out.tbl
               /\ sgRet' = sgRet \cup { [bytes |-> dom_html, id |-> out.screengrab[k].screengrab_id] :
                                          k \in 1..Len(out.screengrab) }
               /\ last' = [op |-> "capture", attempts |-> attempts, outcome |-> out.outcome,
                           message |-> out.message, screengrab |-> out.screengrab,
                           log |-> out.log]
        /\ UNCHANGED <<pairTbl, cmpTbl, clock, wr, raced, scratch, ext>>

NextCap == CaptureUrl

SpecCap == Init /\ [][NextCap]_vars

(* --------------------- value extraction (parse) ------------------------ *)
\* An oracle response is a text of at most MaxRaw tokens: the braces, "p"
\* for one member ("key": value) and "x" for any text that is not JSON.
MaxRaw    == 4
RawTokens == {"{", "}", "p", "x"}
RawTexts  == UNION { [1..n -> RawTokens] : n \in 0..MaxRaw }

Min2(a, b) == IF a < b THEN a ELSE b
Max2(a, b) == IF a > b THEN a ELSE b

\* str.find / str.rfind: 0-based index of the first / last c, -1 if none
find(s, c) ==
    IF \E i \in 1..Len(s) : s[i] = c
    THEN (CHOOSE i \in 1..Len(s) : s[i] = c /\ \A j \in 1..(i - 1) : s[j] # c) - 1
    ELSE -1

rfind(s, c) ==
    IF \E i \in 1..Len(s) : s[i] = c
    THEN (CHOOSE i \in 1..Len(s) : s[i] = c /\ \A j \in (i + 1)..Len(s) : s[j] # c) - 1
    ELSE -1

\* s[a:b] for b >= 0: a negative a counts from the end
PySlice(s, a, b) ==
    LET lo == IF a < 0 THEN Max2(Len(s) + a, 0) ELSE Min2(a, Len(s))
        hi == Min2(b, Len(s))
    IN  IF lo < hi THEN SubSeq(s, lo + 1, hi) ELSE << >>

\* json.loads: the empty object, the object with one member, or an error
json_loads(s) ==
    IF s = <<"{", "}">> THEN [ok |-> TRUE, value |-> {}]
    ELSE IF s = <<"{", "p", "}">> THEN [ok |-> TRUE, value |-> {"p"}]
    ELSE [ok |-> FALSE, value |-> {}]

\* the fallback cut one token short of the closing brace
SliceShort(raw_text) == PySlice(raw_text, find(raw_text, "{"), rfind(raw_text, "}"))

SliceBraces(raw_text) == PySlice(raw_text, find(raw_text, "{"), rfind(raw_text, "}") + 1)

parse_llm_json(raw_text) ==
    IF json_loads(raw_text).ok THEN json_loads(raw_text)
    ELSE json_loads(SliceBraces(raw_text))

\* extract_graph_json_from_png_bytes: the same two-step parse
extract_graph_json(raw) ==
    IF json_loads(raw).ok THEN json_loads(raw)
    ELSE json_loads(SliceBraces(raw))

(* --------------------------- extraction table -------------------------- *)
MaxExt == 3

\* str(uuid.uuid4()): an unused id, in no relation to the insertion order
ExtIdChoices(tbl) ==
    LET free == (1..MaxExt) \ { tbl[i].extraction_id : i \in 1..Len(tbl) }
    IN  { u \in free : (\A v \in free : u <= v) \/ (\A v \in free : u >= v) }

\* the fact row; created_at increases with every insert
ExtractionPayload(tbl, id, widget_id, values) ==
    [ extraction_id |-> id,
      widget_id     |-> widget_id,
      values        |-> values,
      created_at    |-> Len(tbl) + 1 ]

ParseFaults == {"none", "download", "llm", "upload", "insert"}

\* The body of the Parse loop for one selected widget.
do_parse(tbl, files, id, widget_id, raw_text, save_json_files, fault) ==
    IF fault = "download"
    THEN [tbl |-> tbl, files |-> files, status |-> "download failed"]
    ELSE IF fault = "llm"
    THEN [tbl |-> tbl, files |-> files, status |-> "extraction failed"]
    ELSE IF ~parse_llm_json(raw_text).ok
    THEN [tbl |-> tbl, files |-> files, status |-> "non-JSON"]
    ELSE LET values == parse_llm_json(raw_text).value
             f1     == IF save_json_files
                       THEN Append(files, [widget_id |-> widget_id, data |-> values])
                       ELSE files
         IN  IF save_json_files /\ fault = "upload"
             THEN [tbl |-> tbl, files |-> files, status |-> "raised"]
             ELSE IF fault = "insert"
             THEN [tbl |-> tbl, files |-> f1, status |-> "failed"]
             ELSE [tbl |-> Append(tbl, ExtractionPayload(tbl, id, widget_id, values)),
                   files |-> f1, status |-> "ok"]

\* The body of the process_session loop for one widget row: every failure
\* is an exception that leaves the function.
process_session(tbl, files, id, widget_id, raw, fault) ==
    IF fault \in {"download", "llm"}
    THEN [tbl |-> tbl, files |-> files, status |-> "raised"]
    ELSE IF ~extract_graph_json(raw).ok
    THEN [tbl |-> tbl, files |-> files, status |-> "raised JSONDecodeError"]
    ELSE LET values == extract_graph_json(raw).value
             f1     == Append(files, [widget_id |-> widget_id, data |-> values])
         IN  IF fault = "upload"
             THEN [tbl |-> tbl, files |-> files, status |-> "raised"]
             ELSE IF fault = "insert"
             THEN [tbl |-> tbl, files |-> f1, status |-> "raised"]
             ELSE [tbl |-> Append(tbl, ExtractionPayload(tbl, id, widget_id, values)),
                   files |-> f1, status |-> "ok"]

MaxParseRuns == 2
ParseWidgets == {"w1"}

InitParse ==
    /\ InitTables
    /\ arg \in { [f |-> "parse", raw_text |-> r] : r \in RawTexts }

DoParse ==
    \E widget_id \in ParseWidgets, save_json_files \in BOOLEAN, fault \in ParseFaults,
       id \in ExtIdChoices(extTbl) :
        /\ arg.f = "parse"
        /\ Len(extTbl) < MaxParseRuns /\ Len(audit) < MaxParseRuns
        /\ LET out == do_parse(extTbl, audit, id, widget_id, arg.raw_text, save_json_files, fault)
           IN  /\ extTbl' = out.tbl
               /\ audit' = out.files
               /\ last' = [op |-> "parse", widget_id |-> widget_id, status |-> out.status]
        /\ UNCHANGED <<pairTbl, cmpTbl, sgTbl, clock, wr, raced, scratch, sgRet, cmp_llm, arg>>

ProcessSession ==
    \E widget_id \in ParseWidgets, fault \in ParseFaults, id \in ExtIdChoices(extTbl) :
        /\ arg.f = "parse"
        /\ Len(extTbl) < MaxParseRuns /\ Len(audit) < MaxParseRuns
        /\ LET out == process_session(extTbl, audit, id, widget_id, arg.raw_text, fault)
           IN  /\ extTbl' = out.tbl
               /\ audit' = out.files
               /\ last' = [op |-> "process_session", widget_id |-> widget_id, status |-> out.status]
        /\ UNCHANGED <<pairTbl, cmpTbl, sgTbl, clock, wr, raced, scratch, sgRet, cmp_llm, arg>>

NextParse ==
    \/ DoParse
    \/ ProcessSession

SpecParse == InitParse /\ [][NextParse]_vars

(* ----------------------- compare_pair_by_row --------------------------- *)
ExtCols == {"extraction_id", "widget_id", "values", "created_at"}

\* _discover_cols: the keys of the first row, none while the table is empty
discover_cols(tbl) == IF Len(tbl) > 0 THEN ExtCols ELSE {}

order_col_for_extract(cols) ==
    IF "created_at" \in cols THEN "created_at" ELSE "extraction_id"

OrderKey(row, col) == IF col = "created_at" THEN row.created_at ELSE row.extraction_id

\* the read without its widget filter
LatestOfAnyWidget(tbl, cols, widget_id) ==
    LET rows == 1..Len(tbl)
        col  == order_col_for_extract(cols)
    IN  IF rows = {} THEN 0
        ELSE CHOOSE i \in rows : \A j \in rows : OrderKey(tbl[i], col) >= OrderKey(tbl[j], col)

\* select * where widget_id = ... order by <order col> desc limit 1
\* (0: no row)
load_latest_extract_for_widget(tbl, cols, widget_id) ==
    LET rows == { i \in 1..Len(tbl) : tbl[i].widget_id = widget_id }
        col  == order_col_for_extract(cols)
    IN  IF rows = {} THEN 0
        ELSE CHOOSE i \in rows : \A j \in rows : OrderKey(tbl[i], col) >= OrderKey(tbl[j], col)

\* the first dict/list field of the row: "values" is the only JSON column
FirstJsonField(row) == row.values

pick_json_payload(row) ==
    IF row.values # {} THEN row.values ELSE FirstJsonField(row)

\* What the comparison oracle answers.  parses: the text is a JSON object;
\* verdict: any text, or Missing; confidence: a number or a numeric string
\* (in hundredths), a text that is no number, null, or Missing.
Missing == "<missing>"
RawVerdicts == {"Matched", "NotMatched", "matched", "Unknown", Missing}
RawConfidences ==
    { [kind |-> "number", v |-> v] : v \in {0 - 50, 0, 50, 100, 150} }
        \cup { [kind |-> "numeric string", v |-> 50], [kind |-> "text", v |-> 0],
               [kind |-> "null", v |-> 0], [kind |-> Missing, v |-> 0] }
CompareResponses ==
    { [parses |-> TRUE, verdict |-> v, confidence |-> c] : v \in RawVerdicts, c \in RawConfidences }
        \cup { [parses |-> FALSE, verdict |-> Missing, confidence |-> [kind |-> Missing, v |-> 0]] }

\* the verdict passed through as received
KeepVerdict(verdict) == verdict

coerce_verdict(verdict) ==
    IF verdict \notin {"Matched", "NotMatched"} THEN "NotMatched" ELSE verdict

\* float(out.get("confidence", 0.0)), 0.0 when float() raises
float_or_zero(confidence) ==
    IF confidence.kind \in {"number", "numeric string"} THEN confidence.v ELSE 0

clamp(conf) == Max2(0, Min2(FullConfidence, conf))

call_llm_compare(response) ==
    IF ~response.parses
    THEN [raised |-> TRUE, verdict |-> Missing, confidence |-> 0]
    ELSE [raised |-> FALSE,
          verdict |-> coerce_verdict(response.verdict),
          confidence |-> clamp(float_or_zero(response.confidence))]

NoOut == [raised |-> FALSE, verdict |-> Missing, confidence |-> 0]

compare_pair_by_row(tbl, ctbl, cols, pair_row, response, now_iso, fault) ==
    LET pair_id   == pair_row.pair_id
        left_wid  == pair_row.widget_id_left
        right_wid == pair_row.widget_id_right
        left_ext  == load_latest_extract_for_widget(tbl, cols, left_wid)
        right_ext == load_latest_extract_for_widget(tbl, cols, right_wid)
    IN  IF left_wid = "" \/ right_wid = ""
        THEN [ctbl |-> ctbl, kind |-> "error", error |-> "pair row missing widget ids",
              pair_id |-> pair_id, llm_calls |-> 0, out |-> NoOut]
        ELSE IF left_ext = 0 \/ right_ext = 0
        THEN [ctbl |-> ctbl, kind |-> "error", error |-> "missing latest extracts",
              pair_id |-> pair_id, llm_calls |-> 0, out |-> NoOut]
        ELSE IF pick_json_payload(tbl[left_ext]) = {} \/ pick_json_payload(tbl[right_ext]) = {}
        THEN [ctbl |-> ctbl, kind |-> "error", error |-> "missing JSON values",
              pair_id |-> pair_id, llm_calls |-> 0, out |-> NoOut]
        ELSE LET out == call_llm_compare(response)
                 db  == scd2_upsert_compare(ctbl, pair_id, tbl[left_ext].extraction_id,
                                            tbl[right_ext].extraction_id, left_wid, right_wid,
                                            out.verdict, out.confidence, now_iso, fault)
             IN  IF out.raised
                 THEN [ctbl |-> ctbl, kind |-> "raised", error |-> "", pair_id |-> pair_id,
                       llm_calls |-> 1, out |-> out]
                 ELSE IF db.raised
                 THEN [ctbl |-> db.tbl, kind |-> "raised", error |-> "", pair_id |-> pair_id,
                       llm_calls |-> 1, out |-> out]
                 ELSE [ctbl |-> db.tbl, kind |-> "result", error |-> "", pair_id |-> pair_id,
                       llm_calls |-> 1, out |-> out]

PairRowsIn ==
    { [pair_id |-> 1, widget_id_left |-> "w1", widget_id_right |-> "w3"],
      [pair_id |-> 2, widget_id_left |-> "", widget_id_right |-> "w3"] }

\* the page is run: the comparator is built once and kept
GetPairComparator ==
    /\ ~cmp_llm.built
    /\ cmp_llm' = [built |-> TRUE, extract_cols |-> discover_cols(extTbl)]
    /\ last' = [op |-> "page"]
    /\ UNCHANGED <<pairTbl, cmpTbl, sgTbl, clock, wr, raced, scratch, sgRet, extTbl, audit, arg>>

\* a Parse run that succeeds for one widget
ExtractionInsertedOn(widgets, texts, maxRows) ==
    \E widget_id \in widgets, raw_text \in texts, id \in ExtIdChoices(extTbl) :
        /\ Len(extTbl) < maxRows
        /\ LET out == do_parse(extTbl, audit, id, widget_id, raw_text, FALSE, "none")
           IN  /\ extTbl' = out.tbl
               /\ last' = [op |-> "parse", widget_id |-> widget_id, status |-> out.status]
        /\ UNCHANGED <<pairTbl, cmpTbl, sgTbl, clock, wr, raced, scratch, sgRet, cmp_llm, audit, arg>>

ComparePairByRowOn(responses, faults) ==
    \E pair_row \in PairRowsIn, response \in responses, fault \in faults :
        /\ cmp_llm.built
        /\ LET r == compare_pair_by_row(extTbl, cmpTbl, cmp_llm.extract_cols, pair_row,
                                        response, clock, fault)
           IN  /\ Len(r.ctbl) <= MaxCmpRows
               /\ cmpTbl' = r.ctbl
               /\ last' = [op |-> "compare_pair", pair_row |-> pair_row, response |-> response,
                           kind |-> r.kind, pair_id |-> r.pair_id, llm_calls |-> r.llm_calls,
                           out |-> r.out]
        /\ UNCHANGED <<pairTbl, sgTbl, clock, wr, raced, scratch, sgRet, ext>>

ObjectTexts == { <<"{", "}">>, <<"{", "p", "}">> }
MatchedFull == { [parses |-> TRUE, verdict |-> "Matched",
                  confidence |-> [kind |-> "number", v |-> FullConfidence]] }

ExtractionInserted == ExtractionInsertedOn({"w1", "w3"}, ObjectTexts, MaxExt)
ComparePairByRow   == ComparePairByRowOn(MatchedFull, Faults)

NextCmp ==
    \/ GetPairComparator
    \/ ExtractionInserted
    \/ ComparePairByRow

SpecCmp == Init /\ [][NextCmp]_vars

\* the same calls against an oracle that gives one of all its answers
MaxLlmExt == 2

InitLlm ==
    /\ InitTables
    /\ arg \in { [f |-> "compare", response |-> r] : r \in CompareResponses }

ExtractionInsertedLlm == ExtractionInsertedOn({"w1", "w3"}, { <<"{", "p", "}">> }, MaxLlmExt)

ComparePairByRowLlm ==
    /\ arg.f = "compare"
    /\ ComparePairByRowOn({arg.response}, {"none"})

NextLlm ==
    \/ GetPairComparator
    \/ ExtractionInsertedLlm
    \/ ComparePairByRowLlm

SpecLlm == InitLlm /\ [][NextLlm]_vars

(* --------------- widget candidates: dedupe by IoU ---------------------- *)
\* A candidate is (sel, box, kind) with box = <<x, y, w, h>>.  The
\* candidates are collected selector by selector: containers, then roles,
\* then primitives.
selectors == <<".visualContainer", "[role='figure']", "svg">>

kind_of(sel) ==
    IF sel = ".visualContainer" THEN "container"
    ELSE IF sel = "[role='figure']" THEN "role"
    ELSE "primitive"

MaxCands == 3
BoxSizes == { <<3, 3>>, <<2, 3>>, <<3, 4>> }
Boxes    == { <<x, y, s[1], s[2]>> : x \in {0, 1}, y \in {0, 1}, s \in BoxSizes }

Candidate(i, box) == [sel |-> selectors[i], box |-> box, kind |-> kind_of(selectors[i])]

\* _iou_local: the intersection and the union area; the value returned is
\* inter / max(1, ua), and 0.0 when the boxes do not intersect
iou_local(a, b) ==
    LET x1 == Max2(a[1], b[1])
        y1 == Max2(a[2], b[2])
        x2 == Min2(a[1] + a[3], b[1] + b[3])
        y2 == Min2(a[2] + a[4], b[2] + b[4])
        inter == Max2(0, x2 - x1) * Max2(0, y2 - y1)
        ua == a[3] * a[4] + b[3] * b[4] - inter
    IN  IF inter = 0 THEN [inter |-> 0, ua |-> 1] ELSE [inter |-> inter, ua |-> Max2(1, ua)]

\* overlap > pct / 100
Exceeds(overlap, pct) == overlap.inter * 100 > pct * overlap.ua

DROP_UNDER_CONTAINER == 65
DROP_SAME_KIND       == 72

\* key=lambda c: (c[1][1], c[1][0])
KeyLess(c, d) ==
    c.box[2] < d.box[2] \/ (c.box[2] = d.box[2] /\ c.box[1] < d.box[1])

\* the candidates left in the order they were collected
Unsorted(cands) == cands

\* sorted(candidates, key=...): stable
RECURSIVE sorted(_)
sorted(cands) ==
    IF Len(cands) <= 1 THEN cands
    ELSE LET m == CHOOSE i \in 1..Len(cands) :
                     /\ \A j \in 1..Len(cands) : ~KeyLess(cands[j], cands[i])
                     /\ \A j \in 1..(i - 1) : KeyLess(cands[i], cands[j])
             rest == [k \in 1..(Len(cands) - 1) |-> IF k < m THEN cands[k] ELSE cands[k + 1]]
         IN  <<cands[m]>> \o sorted(rest)

\* the same-kind test left out
DropUnderContainerOnly(c, kept) ==
    \E k \in 1..Len(kept) :
        /\ Exceeds(iou_local(c.box, kept[k].box), DROP_UNDER_CONTAINER)
        /\ kept[k].kind = "container"
        /\ c.kind \in {"primitive", "role"}

\* the inner loop: some kept box makes the candidate drop
Drop(c, kept) ==
    \E k \in 1..Len(kept) :
        \/ /\ Exceeds(iou_local(c.box, kept[k].box), DROP_UNDER_CONTAINER)
           /\ kept[k].kind = "container"
           /\ c.kind \in {"primitive", "role"}
        \/ /\ Exceeds(iou_local(c.box, kept[k].box), DROP_SAME_KIND)
           /\ kept[k].kind = c.kind

RECURSIVE dedupe_loop(_, _, _)
dedupe_loop(order, i, kept) ==
    IF i > Len(order) THEN kept
    ELSE dedupe_loop(order, i + 1, IF Drop(order[i], kept) THEN kept ELSE Append(kept, order[i]))

dedupe(candidates) == dedupe_loop(sorted(candidates), 1, << >>)

InitDedupe ==
    /\ InitTables
    /\ arg = [f |-> "extract", candidates |-> << >>]

\* the collecting loop: one more element of the selector in turn, or of a
\* later selector
CollectCandidate ==
    \E i \in 1..Len(selectors), box \in Boxes :
        /\ arg.f = "extract"
        /\ last.op # "dedupe"
        /\ Len(arg.candidates) < MaxCands
        /\ \A k \in 1..Len(arg.candidates) :
              \E j \in 1..i : arg.candidates[k].sel = selectors[j]
        /\ arg' = [arg EXCEPT !.candidates = Append(@, Candidate(i, box))]
        /\ UNCHANGED <<pairTbl, cmpTbl, sgTbl, clock, last, wr, raced, scratch, sgRet,
                       extTbl, cmp_llm, audit>>

Dedupe ==
    /\ arg.f = "extract"
    /\ last' = [op |-> "dedupe", kept |-> dedupe(arg.candidates)]
    /\ UNCHANGED <<pairTbl, cmpTbl, sgTbl, clock, wr, raced, scratch, sgRet, ext>>

NextDedupe ==
    \/ CollectCandidate
    \/ Dedupe

SpecDedupe == InitDedupe /\ [][NextDedupe]_vars

(* ------------------- binary floating point (double) -------------------- *)
\* A natural number below 2^75 is the sequence of its LIMBS digits in base
\* 2^LIMB_BITS, lowest first.  A double d with |d| < 4 that is 0 or at least
\* 1/8 is the integer d * 2^FRAC_BITS: a sign and a magnitude below 2^57.
FRAC_BITS == 55
MANT_BITS == 53
GUARD_BITS == 8
LIMB_BITS == 15
LIMBS == 5
BASE == 2 ^ LIMB_BITS

BZero == [i \in 1..LIMBS |-> 0]

\* 2^k
BPow2(k) == [i \in 1..LIMBS |-> IF i = (k \div LIMB_BITS) + 1 THEN 2 ^ (k % LIMB_BITS) ELSE 0]

\* the digits i.. of a + b + carry
RECURSIVE AddFrom(_, _, _, _)
AddFrom(a, b, i, carry) ==
    IF i > LIMBS THEN << >>
    ELSE LET s == a[i] + b[i] + carry
         IN  <<s % BASE>> \o AddFrom(a, b, i + 1, s \div BASE)

BAdd(a, b) == AddFrom(a, b, 1, 0)

\* the digits i.. of a - b - borrow, for a >= b
RECURSIVE SubFrom(_, _, _, _)
SubFrom(a, b, i, borrow) ==
    IF i > LIMBS THEN << >>
    ELSE LET s == a[i] - b[i] - borrow
         IN  <<s % BASE>> \o SubFrom(a, b, i + 1, IF s < 0 THEN 1 ELSE 0)

BSub(a, b) == SubFrom(a, b, 1, 0)

BLess(a, b) ==
    \E i \in 1..LIMBS : a[i] < b[i] /\ \A j \in (i + 1)..LIMBS : a[j] = b[j]

\* the digits i.. of a * m + carry, for a small m
RECURSIVE MulFrom(_, _, _, _)
MulFrom(a, m, i, carry) ==
    IF i > LIMBS THEN << >>
    ELSE LET s == a[i] * m + carry
         IN  <<s % BASE>> \o MulFrom(a, m, i + 1, s \div BASE)

BMulSmall(a, m) == MulFrom(a, m, 1, 0)

\* a divided by a small d, long division from the highest digit down to
\* digit i: the digits of the quotient, highest first, and the remainder
RECURSIVE DivFrom(_, _, _, _)
DivFrom(a, d, i, rem) ==
    IF i = 0 THEN [quot |-> << >>, rem |-> rem]
    ELSE LET cur  == rem * BASE + a[i]
             rest == DivFrom(a, d, i - 1, cur % d)
         IN  [quot |-> <<cur \div d>> \o rest.quot, rem |-> rest.rem]

BDivSmall(a, d) ==
    LET r == DivFrom(a, d, LIMBS, 0)
    IN  [quot |-> [i \in 1..LIMBS |-> r.quot[LIMBS + 1 - i]], rem |-> r.rem]

\* a div 2^k
BShr(a, k) ==
    LET q == k \div LIMB_BITS
        r == k % LIMB_BITS
        At(i) == IF i <= LIMBS THEN a[i] ELSE 0
    IN  [i \in 1..LIMBS |->
           (At(i + q) \div (2 ^ r)) + (At(i + q + 1) % (2 ^ r)) * (2 ^ (LIMB_BITS - r))]

\* a mod 2^k
BLow(a, k) ==
    LET q == k \div LIMB_BITS
        r == k % LIMB_BITS
    IN  [i \in 1..LIMBS |-> IF i <= q THEN a[i] ELSE IF i = q + 1 THEN a[i] % (2 ^ r) ELSE 0]

\* the number of significant bits of a
BitLen(a) ==
    IF a = BZero THEN 0
    ELSE LET top == CHOOSE i \in 1..LIMBS : a[i] # 0 /\ \A j \in (i + 1)..LIMBS : a[j] = 0
         IN  (top - 1) * LIMB_BITS
             + (CHOOSE n \in 1..LIMB_BITS : 2 ^ (n - 1) <= a[top] /\ a[top] < 2 ^ n)

\* round to nearest, ties to even, to MANT_BITS significant bits; sticky
\* says that the exact value lies above mag
Round53(mag, sticky) ==
    IF BitLen(mag) <= MANT_BITS THEN mag
    ELSE LET k    == BitLen(mag) - MANT_BITS
             low  == BLow(mag, k)
             half == BPow2(k - 1)
             base == BSub(mag, low)
             up   == \/ BLess(half, low)
                     \/ (low = half /\ (sticky \/ BLow(BShr(mag, k), 1) # BZero))
         IN  IF up THEN BAdd(base, BPow2(k)) ELSE base

\* the double a decimal literal num/den denotes, for num < 2^LIMB_BITS
Literal(num, den) ==
    LET x == BDivSmall(BMulSmall(BPow2(FRAC_BITS + GUARD_BITS), num), den)
    IN  [neg |-> FALSE, mag |-> BShr(Round53(x.quot, x.rem # 0), GUARD_BITS)]

\* a + b rounded
FAdd(a, b) ==
    IF a.neg = b.neg
    THEN [neg |-> a.neg, mag |-> Round53(BAdd(a.mag, b.mag), FALSE)]
    ELSE IF a.mag = b.mag THEN [neg |-> FALSE, mag |-> BZero]
    ELSE IF BLess(a.mag, b.mag)
    THEN [neg |-> b.neg, mag |-> Round53(BSub(b.mag, a.mag), FALSE)]
    ELSE [neg |-> a.neg, mag |-> Round53(BSub(a.mag, b.mag), FALSE)]

FSub(a, b) == FAdd(a, [neg |-> ~b.neg, mag |-> b.mag])

\* a < b
FLess(a, b) ==
    IF a.neg /\ ~b.neg THEN a.mag # BZero \/ b.mag # BZero
    ELSE IF ~a.neg /\ b.neg THEN FALSE
    ELSE IF a.neg THEN BLess(b.mag, a.mag)
    ELSE BLess(a.mag, b.mag)

\* round(x, 3) for 0 <= x <= 1, in thousandths: nearest, ties to even
round3(x) ==
    LET p    == BMulSmall(x.mag, 1000)
        q    == BShr(p, FRAC_BITS)
        low  == BLow(p, FRAC_BITS)
        half == BPow2(FRAC_BITS - 1)
        up   == BLess(half, low) \/ (low = half /\ q[1] % 2 = 1)
    IN  q[1] + (IF up THEN 1 ELSE 0)

(* ----------------------------- score_widget ---------------------------- *)
MIN_W == 150
MIN_H == 100
MIN_GOOD_W    == 220
MIN_GOOD_H    == 160
MIN_GOOD_AREA == 160000
RESCUE_MIN_W    == 180
RESCUE_MIN_H    == 140
RESCUE_MIN_AREA == 120000

\* floating-point constants, in hundredths
QUALITY_THRESHOLD == 60
HARD_AR_LOW  == 60
HARD_AR_HIGH == 350
SOFT_AR_LOW  == 80
SOFT_AR_HIGH == 220

Hundredths(n) == Literal(n, 100)

\* ar = w / max(1, h) against a bound of b hundredths.  For w, h below 2^20
\* the rounded quotient lies below (above) the rounded bound exactly when
\* the exact quotient lies below (above) the exact bound.
ArBelow(w, h, b) == w * 100 < b * Max2(1, h)
ArAbove(w, h, b) == w * 100 > b * Max2(1, h)

SelectorKinds == {"container", "tableau", "role", "primitive"}
Widths  == {100, 180, 220, 400, 500, 1000}
Heights == {90, 140, 160, 200, 400, 800}

\* quality = "good" if score >= QUALITY_THRESHOLD else "junk"
QualityOf(score) ==
    IF ~FLess(score, Hundredths(QUALITY_THRESHOLD)) THEN "good" ELSE "junk"

\* if cond: score += amount
Raise(score, cond, amount) == IF cond THEN FAdd(score, Hundredths(amount)) ELSE score

\* if cond: score -= amount
Lower(score, cond, amount) == IF cond THEN FSub(score, Hundredths(amount)) ELSE score

\* max(0.0, min(1.0, score))
Clamp01(score) ==
    IF FLess(Literal(1, 1), score) THEN Literal(1, 1)
    ELSE IF FLess(score, Literal(0, 1)) THEN Literal(0, 1)
    ELSE score

\* the quality decided on the clamped score, and the score as it is returned
Decide(score) == [quality |-> QualityOf(score), quality_score |-> round3(score)]

score_widget(selector_kind, w, h, title_present) ==
    LET area == Max2(1, w) * Max2(1, h)
        too_small == w < MIN_W \/ h < MIN_H
        hard_ar_violation == ArBelow(w, h, HARD_AR_LOW) \/ ArAbove(w, h, HARD_AR_HIGH)
        soft_ar_violation == ArBelow(w, h, SOFT_AR_LOW) \/ ArAbove(w, h, SOFT_AR_HIGH)
        good_size_ok == w >= MIN_GOOD_W /\ h >= MIN_GOOD_H /\ area >= MIN_GOOD_AREA
        is_container_with_title == selector_kind \in {"container", "tableau"} /\ title_present
        s0 == Literal(0, 1)
        s1 == Raise(Lower(s0, too_small, 70), ~too_small, 20)
        s2 == FAdd(s1, Hundredths(IF selector_kind \in {"container", "tableau"} THEN 60
                                  ELSE IF selector_kind = "role" THEN 30
                                  ELSE 15))
        s3 == Raise(s2, title_present, 35)
        s4 == Lower(s3, hard_ar_violation, 60)
        s5 == Lower(s4, soft_ar_violation, 35)
        s6 == Lower(s5, ~good_size_ok /\ ~is_container_with_title, 35)
        s7 == Lower(s6, is_container_with_title /\ hard_ar_violation, 25)
        s8 == Lower(s7, is_container_with_title
                          /\ (w < RESCUE_MIN_W \/ h < RESCUE_MIN_H \/ area < RESCUE_MIN_AREA), 20)
    IN  Decide(Clamp01(s8))

InitScore ==
    /\ InitTables
    /\ arg \in { [f |-> "score_widget", selector_kind |-> k, w |-> w, h |-> h, title_present |-> t] :
                   k \in SelectorKinds, w \in Widths, h \in Heights, t \in BOOLEAN }

ScoreWidget ==
    /\ arg.f = "score_widget"
    /\ last.op # "score_widget"
    /\ LET q == score_widget(arg.selector_kind, arg.w, arg.h, arg.title_present)
       IN  last' = [op |-> "score_widget", quality |-> q.quality, quality_score |-> q.quality_score]
    /\ UNCHANGED <<pairTbl, cmpTbl, sgTbl, clock, wr, raced, scratch, sgRet, ext>>

NextScore == ScoreWidget

SpecScore == InitScore /\ [][NextScore]_vars

(* ----------------- latest_extract_for_widget (page) -------------------- *)
\* The page's reader looks the columns up at every call.
latest_extract_for_widget(tbl, widget_id) ==
    load_latest_extract_for_widget(tbl, discover_cols(tbl), widget_id)

\* the mapping gate reads the latest extraction of a widget
LatestExtractForWidget ==
    \E widget_id \in {"w1", "w3"} :
        /\ last' = [op |-> "latest_extract", widget_id |-> widget_id,
                    row |-> latest_extract_for_widget(extTbl, widget_id)]
        /\ UNCHANGED <<pairTbl, cmpTbl, sgTbl, clock, wr, raced, scratch, sgRet, ext>>

NextLatest ==
    \/ GetPairComparator
    \/ ExtractionInserted
    \/ ComparePairByRow
    \/ LatestExtractForWidget

SpecLatest == Init /\ [][NextLatest]_vars

(* --------------------------- Parse batches ----------------------------- *)
BatchWidgets == <<"w1", "w2">>

\* str(uuid.uuid4()) for the next fact row
NextExtId(tbl) ==
    CHOOSE u \in ExtIdChoices(tbl) : \A v \in ExtIdChoices(tbl) : u <= v

\* The Parse loop over the selected widgets from the k-th on; faults[k] is
\* the step that fails for the k-th widget.  An exception that the loop
\* body does not catch ends the run of the page.
RECURSIVE parse_loop(_, _, _, _, _, _, _, _)
parse_loop(k, selected, tbl, files, raw_text, save_json_files, faults, statuses) ==
    IF k > Len(selected)
    THEN [tbl |-> tbl, files |-> files, statuses |-> statuses]
    ELSE LET out == do_parse(tbl, files, NextExtId(tbl), selected[k], raw_text,
                             save_json_files, faults[k])
         IN  IF out.status = "raised"
             THEN [tbl |-> out.tbl, files |-> out.files, statuses |-> Append(statuses, out.status)]
             ELSE parse_loop(k + 1, selected, out.tbl, out.files, raw_text, save_json_files,
                             faults, Append(statuses, out.status))

\* The loop of process_session over the widget rows of the session.
RECURSIVE session_loop(_, _, _, _, _, _, _)
session_loop(k, rows, tbl, files, raw, faults, statuses) ==
    IF k > Len(rows)
    THEN [tbl |-> tbl, files |-> files, statuses |-> statuses]
    ELSE LET out == process_session(tbl, files, NextExtId(tbl), rows[k], raw, faults[k])
         IN  IF out.status # "ok"
             THEN [tbl |-> out.tbl, files |-> out.files, statuses |-> Append(statuses, out.status)]
             ELSE session_loop(k + 1, rows, out.tbl, out.files, raw, faults,
                               Append(statuses, out.status))

MaxFiles == 4
BatchTexts == { <<"{", "p", "}">>, <<"{", "}">>, <<"x">> }

InitParseBatch ==
    /\ InitTables
    /\ arg \in { [f |-> "parse", raw_text |-> r] : r \in BatchTexts }

ParseBatch ==
    \E save_json_files \in BOOLEAN, faults \in [1..Len(BatchWidgets) -> ParseFaults] :
        /\ Len(extTbl) + Len(BatchWidgets) <= MaxExt
        /\ Len(audit) + Len(BatchWidgets) <= MaxFiles
        /\ LET out == parse_loop(1, BatchWidgets, extTbl, audit, arg.raw_text,
                                 save_json_files, faults, << >>)
           IN  /\ extTbl' = out.tbl
               /\ audit' = out.files
               /\ last' = [op |-> "parse_batch", selected |-> BatchWidgets, faults |-> faults,
                           save_json_files |-> save_json_files, statuses |-> out.statuses]
        /\ UNCHANGED <<pairTbl, cmpTbl, sgTbl, clock, wr, raced, scratch, sgRet, cmp_llm, arg>>

SessionBatch ==
    \E faults \in [1..Len(BatchWidgets) -> ParseFaults] :
        /\ Len(extTbl) + Len(BatchWidgets) <= MaxExt
        /\ Len(audit) + Len(BatchWidgets) <= MaxFiles
        /\ LET out == session_loop(1, BatchWidgets, extTbl, audit, arg.raw_text, faults, << >>)
           IN  /\ extTbl' = out.tbl
               /\ audit' = out.files
               /\ last' = [op |-> "session_batch", selected |-> BatchWidgets, faults |-> faults,
                           save_json_files |-> TRUE, statuses |-> out.statuses]
        /\ UNCHANGED <<pairTbl, cmpTbl, sgTbl, clock, wr, raced, scratch, sgRet, cmp_llm, arg>>

NextParseBatch ==
    \/ ParseBatch
    \/ SessionBatch

SpecParseBatch == InitParseBatch /\ [][NextParseBatch]_vars

(* ----------------------- Parse: the retry loop ------------------------- *)
\* for attempt in range(3)
MAX_ATTEMPTS == 3
\* time.sleep(1.5), in tenths of a second
RETRY_SLEEP == 15

\* how one call of the oracle ends
CallOutcomes == {"returns", "raises"}

\* no attempt is the last one
NeverLastAttempt(attempt) == FALSE

\* if attempt == 2 (attempts count from 0)
is_last_attempt(attempt) == attempt = 2

\* The loop from the given attempt on.  outcomes[attempt + 1] is how the
\* call of that attempt ends; log lists the calls, the sleeps and the
\* errors shown, in order.
RECURSIVE retry_loop(_, _, _)
retry_loop(attempt, outcomes, log) ==
    IF attempt >= MAX_ATTEMPTS
    THEN [raw_text_is_none |-> TRUE, log |-> log]
    ELSE IF outcomes[attempt + 1] = "returns"
    THEN [raw_text_is_none |-> FALSE, log |-> Append(log, <<"call", attempt>>)]
    ELSE IF is_last_attempt(attempt)
    THEN retry_loop(attempt + 1, outcomes,
                    log \o << <<"call", attempt>>, <<"st.error", attempt>> >>)
    ELSE retry_loop(attempt + 1, outcomes,
                    log \o << <<"call", attempt>>, <<"sleep", RETRY_SLEEP>> >>)

\* the Parse loop body for one widget whose image was downloaded, with the
\* oracle called through the retry loop
parse_with_retry(tbl, files, id, widget_id, raw_text, save_json_files, outcomes, fault) ==
    LET r   == retry_loop(0, outcomes, << >>)
        out == do_parse(tbl, files, id, widget_id, raw_text, save_json_files,
                        IF r.raw_text_is_none THEN "llm" ELSE fault)
    IN  [tbl |-> out.tbl, files |-> out.files, status |-> out.status, log |-> r.log]

ParseWithRetry ==
    \E widget_id \in ParseWidgets, save_json_files \in BOOLEAN, id \in ExtIdChoices(extTbl),
       outcomes \in [1..MAX_ATTEMPTS -> CallOutcomes], fault \in {"none", "insert"} :
        /\ arg.f = "parse"
        /\ Len(extTbl) < MaxParseRuns /\ Len(audit) < MaxParseRuns
        /\ LET out == parse_with_retry(extTbl, audit, id, widget_id, arg.raw_text,
                                       save_json_files, outcomes, fault)
           IN  /\ extTbl' = out.tbl
               /\ audit' = out.files
               /\ last' = [op |-> "retry", widget_id |-> widget_id, outcomes |-> outcomes,
                           status |-> out.status, log |-> out.log]
        /\ UNCHANGED <<pairTbl, cmpTbl, sgTbl, clock, wr, raced, scratch, sgRet, cmp_llm, arg>>

NextRetry == ParseWithRetry

SpecRetry == InitParseBatch /\ [][NextRetry]_vars

(* ------------------------- compare_json_values ------------------------- *)
MaxPoints == 2
MaxY == 2

\* a data point {x, y}; y may be null
DataPoints ==
    { [x |-> x, y |-> y, y_is_none |-> FALSE] : x \in {"a", "b"}, y \in 0..MaxY }
        \cup { [x |-> x, y |-> 0, y_is_none |-> TRUE] : x \in {"a", "b"} }

SeriesOfLen(n) == [1..n -> DataPoints]
AllSeries == UNION { SeriesOfLen(n) : n \in 0..MaxPoints }

\* _to_df: the points whose y is not None, in order
RECURSIVE to_df(_)
to_df(dpts) ==
    IF dpts = << >> THEN << >>
    ELSE IF Head(dpts).y_is_none THEN to_df(Tail(dpts))
    ELSE << [x |-> Head(dpts).x, y |-> Head(dpts).y] >> \o to_df(Tail(dpts))

\* pd.merge(df_a, df_b, on="x", how="inner"): one row for every pair of a
\* row of df_a and a row of df_b with the same x
merge_inner(df_a, df_b) ==
    LET pairs == { <<i, j>> \in (1..Len(df_a)) \X (1..Len(df_b)) : df_a[i].x = df_b[j].x }
    IN  [ p \in pairs |-> [value_a |-> df_a[p[1]].y, value_b |-> df_b[p[2]].y] ]

\* the sum of f[r] over the rows
RECURSIVE SumOver(_, _)
SumOver(f, rows) ==
    IF rows = {} THEN 0
    ELSE LET r == CHOOSE q \in rows : TRUE
         IN  f[r] + SumOver(f, rows \ {r})

Abs(n) == IF n < 0 THEN 0 - n ELSE n

\* Pearson correlation of value_a and value_b as the fraction
\* num / sqrt(den2); nan when a variance is 0 (0 / 0)
pearson(df) ==
    LET rows == DOMAIN df
        n   == Cardinality(rows)
        sa  == SumOver([r \in rows |-> df[r].value_a], rows)
        sb  == SumOver([r \in rows |-> df[r].value_b], rows)
        cov == n * SumOver([r \in rows |-> df[r].value_a * df[r].value_b], rows) - sa * sb
        va  == n * SumOver([r \in rows |-> df[r].value_a * df[r].value_a], rows) - sa * sa
        vb  == n * SumOver([r \in rows |-> df[r].value_b * df[r].value_b], rows) - sb * sb
    IN  [nan |-> va * vb = 0, num |-> cov, den2 |-> va * vb]

\* corr > p / q; every comparison with NaN is false
CorrAbove(corr, p, q) ==
    /\ ~corr.nan
    /\ corr.num > 0
    /\ q * q * corr.num * corr.num > p * p * corr.den2

\* the sum of abs(a - b) / (abs(b) + 1e-9) over the rows, as a fraction
\* num / den of the rows with b # 0, 1e-9 left out beside abs(b) >= 1; huge:
\* a row has b = 0 and a # 0, its term is at least 1e9
RECURSIVE ape_sum(_, _)
ape_sum(df, rows) ==
    IF rows = {} THEN [huge |-> FALSE, num |-> 0, den |-> 1]
    ELSE LET r    == CHOOSE q \in rows : TRUE
             rest == ape_sum(df, rows \ {r})
             a    == df[r].value_a
             b    == df[r].value_b
         IN  IF b = 0
             THEN [huge |-> rest.huge \/ a # 0, num |-> rest.num, den |-> rest.den]
             ELSE [huge |-> rest.huge,
                   num  |-> rest.num * Abs(b) + Abs(a - b) * rest.den,
                   den  |-> rest.den * Abs(b)]

\* mape < p / q for the mean over n rows
MapeBelow(s, n, p, q) == ~s.huge /\ q * s.num < p * s.den * n

compare_json_values(vals_a, vals_b) ==
    LET df_a == to_df(vals_a)
        df_b == to_df(vals_b)
        df   == merge_inner(df_a, df_b)
        n    == Cardinality(DOMAIN df)
        corr == pearson(df)
        s    == ape_sum(df, DOMAIN df)
    IN  IF df_a = << >> \/ df_b = << >>
        THEN [raised |-> "KeyError", verdict |-> "", n |-> 0, corr_is_one |-> FALSE,
              corr_is_nan |-> FALSE, mape_is_zero |-> FALSE]
        ELSE IF n = 0
        THEN [raised |-> "", verdict |-> "no_overlap", n |-> 0, corr_is_one |-> FALSE,
              corr_is_nan |-> FALSE, mape_is_zero |-> FALSE]
        ELSE [raised |-> "",
              verdict |-> IF CorrAbove(corr, 95, 100) /\ MapeBelow(s, n, 2, 100) THEN "consistent"
                          ELSE IF CorrAbove(corr, 80, 100) THEN "likely_mismatch"
                          ELSE "conflict",
              n |-> n,
              corr_is_one |-> ~corr.nan /\ corr.num > 0 /\ corr.num * corr.num = corr.den2,
              corr_is_nan |-> corr.nan,
              mape_is_zero |-> ~s.huge /\ s.num = 0]

InitCompareValues ==
    /\ InitTables
    /\ arg \in { [f |-> "compare_json_values", vals_a |-> a, vals_b |-> b] :
                   a \in AllSeries, b \in AllSeries }

CompareJsonValues ==
    /\ arg.f = "compare_json_values"
    /\ last.op # "compare_json_values"
    /\ last' = [op |-> "compare_json_values", out |-> compare_json_values(arg.vals_a, arg.vals_b)]
    /\ UNCHANGED <<pairTbl, cmpTbl, sgTbl, clock, wr, raced, scratch, sgRet, ext>>

NextCompareValues == CompareJsonValues

SpecCompareValues == InitCompareValues /\ [][NextCompareValues]_vars

(* ------------------- widget detection: size filters -------------------- *)
\* The elements of a page in document order: the selector that matches the
\* element and its bounding box <<x, y, width, height>> in CSS pixels.
MaxElems == 2
ElemSizes == { <<70, 40>>, <<80, 80>>, <<149, 100>>, <<150, 99>>, <<150, 100>>, <<640, 400>> }
Elems == { [sel |-> s, box |-> <<0, 0, z[1], z[2]>>] : s \in {1, 3}, z \in ElemSizes }
ElemLists == UNION { [1..n -> Elems] : n \in 0..MaxElems }

PAD == 12
SCALE == 2
SCAN_MIN_SIDE == 80
SCAN_MAX_WIDGETS == 24
MAX_WIDGETS == 80
min_panel_w == 320
min_panel_h == 180
min_panel_area == 120000

Take(s, n) == SubSeq(s, 1, Min2(n, Len(s)))

\* Power BI, the collecting loop: for each selector in turn, the elements it
\* matches whose box is at least MIN_W x MIN_H
RECURSIVE pbi_candidates(_, _, _)
pbi_candidates(elems, i, k) ==
    IF i > Len(selectors) THEN << >>
    ELSE IF k > Len(elems) THEN pbi_candidates(elems, i + 1, 1)
    ELSE IF elems[k].sel # i \/ elems[k].box[3] < MIN_W \/ elems[k].box[4] < MIN_H
         THEN pbi_candidates(elems, i, k + 1)
    ELSE << Candidate(i, elems[k].box) >> \o pbi_candidates(elems, i, k + 1)

\* the widget row of a kept candidate: the padded clip is what is stored
pbi_widget(c) ==
    [pre  |-> c.box,
     bbox |-> << Max2(0, c.box[1] - PAD), Max2(0, c.box[2] - PAD),
                 Max2(1, c.box[3] + 2 * PAD), Max2(1, c.box[4] + 2 * PAD) >>]

power_bi_extract(elems) ==
    LET kept == Take(dedupe(pbi_candidates(elems, 1, 1)), MAX_WIDGETS)
    IN  [k \in 1..Len(kept) |-> pbi_widget(kept[k])]

\* Tableau, the outer candidates: the boxes of the chosen selector's elements
\* that are at least MIN_W x MIN_H
RECURSIVE tableau_candidates(_, _)
tableau_candidates(elems, k) ==
    IF k > Len(elems) THEN << >>
    ELSE IF elems[k].box[3] < MIN_W \/ elems[k].box[4] < MIN_H
         THEN tableau_candidates(elems, k + 1)
    ELSE << elems[k].box >> \o tableau_candidates(elems, k + 1)

Area(box) == box[3] * box[4]

\* sorted(candidates, key=area, reverse=True)[0]: the first largest
largest(cands) ==
    cands[CHOOSE i \in 1..Len(cands) :
            /\ \A j \in 1..Len(cands) : Area(cands[j]) <= Area(cands[i])
            /\ \A j \in 1..(i - 1) : Area(cands[j]) < Area(cands[i])]

\* the PNG's size: page.locator(sel).first.screenshot() is the picture of the
\* first element of the selector; the fallback clips the candidate's box;
\* both in device pixels
shot_size(elems, box, shot) ==
    IF shot = "ok"
    THEN << SCALE * elems[1].box[3], SCALE * elems[1].box[4] >>
    ELSE << SCALE * box[3], SCALE * box[4] >>

\* _segment_panels on a picture with one vertical gutter in the middle (or
\* none): the cells that pass the size filter
segment_panels(iw, ih, gutter) ==
    LET w == iw \div 2
    IN  IF ~gutter \/ w < min_panel_w \/ ih < min_panel_h \/ w * ih < min_panel_area
        THEN << >>
        ELSE << <<0, 0, w, ih>>, <<w, 0, iw - w, ih>> >>

\* the defensive clamp and the mapping back to page coordinates
tableau_widget(box, iw, ih, rect) ==
    LET px == Max2(0, Min2(rect[1], iw - 1))
        py == Max2(0, Min2(rect[2], ih - 1))
        pw == Max2(1, Min2(rect[3], iw - px))
        ph == Max2(1, Min2(rect[4], ih - py))
    IN  [pre |-> <<box[1] + px, box[2] + py, pw, ph>>,
         bbox |-> <<box[1] + px, box[2] + py, pw, ph>>]

tableau_panels(box, size, gutter) ==
    LET found == segment_panels(size[1], size[2], gutter)
        rects == Take(IF Len(found) < 2 THEN << <<0, 0, size[1], size[2]>> >> ELSE found, MAX_WIDGETS)
    IN  [k \in 1..Len(rects) |-> tableau_widget(box, size[1], size[2], rects[k])]

tableau_extract(elems, shot, gutter) ==
    LET cands == tableau_candidates(elems, 1)
    IN  IF cands = << >> THEN << >>
        ELSE tableau_panels(largest(cands), shot_size(elems, largest(cands), shot), gutter)

\* the scan page: every element whose box has both sides of 80 or more is
\* stored with its box, until SCAN_MAX_WIDGETS are stored
RECURSIVE scan_widgets(_, _, _)
scan_widgets(elems, k, seen) ==
    IF k > Len(elems) \/ seen >= SCAN_MAX_WIDGETS THEN << >>
    ELSE IF elems[k].box[3] < SCAN_MIN_SIDE \/ elems[k].box[4] < SCAN_MIN_SIDE
         THEN scan_widgets(elems, k + 1, seen)
    ELSE << [pre |-> elems[k].box, bbox |-> elems[k].box] >> \o scan_widgets(elems, k + 1, seen + 1)

InitDetect ==
    /\ InitTables
    /\ arg \in { [f |-> "detect", elems |-> e, shot |-> s, gutter |-> g] :
                   e \in ElemLists, s \in {"ok", "raises"}, g \in BOOLEAN }

PowerBiExtract ==
    /\ arg.f = "detect"
    /\ last.op = "none"
    /\ last' = [op |-> "power_bi", widgets |-> power_bi_extract(arg.elems)]
    /\ UNCHANGED <<pairTbl, cmpTbl, sgTbl, clock, wr, raced, scratch, sgRet, ext>>

TableauExtract ==
    /\ arg.f = "detect"
    /\ last.op = "none"
    /\ last' = [op |-> "tableau", widgets |-> tableau_extract(arg.elems, arg.shot, arg.gutter)]
    /\ UNCHANGED <<pairTbl, cmpTbl, sgTbl, clock, wr, raced, scratch, sgRet, ext>>

ScanWidgets ==
    /\ arg.f = "detect"
    /\ last.op = "none"
    /\ last' = [op |-> "scan", widgets |-> scan_widgets(arg.elems, 1, 0)]
    /\ UNCHANGED <<pairTbl, cmpTbl, sgTbl, clock, wr, raced, scratch, sgRet, ext>>

NextDetect ==
    \/ PowerBiExtract
    \/ TableauExtract
    \/ ScanWidgets

SpecDetect == InitDetect /\ [][NextDetect]_vars

(* ------------------------ report name detection ------------------------ *)
\* A text is the sequence of its tokens: words, single spaces and
\* punctuation marks.  The empty sequence is the empty string (or None).
RECURSIVE CharLen(_)
CharLen(t) == IF t = << >> THEN 0 ELSE Len(Head(t)) + CharLen(Tail(t))

HasSpace(t) == \E k \in 1..Len(t) : t[k] = " "

\* str.lower() token by token
LowerTok(w) ==
    CASE w = "Sales"     -> "sales"
      [] w = "KPI"       -> "kpi"
      [] w = "Power"     -> "power"
      [] w = "BI"        -> "bi"
      [] w = "Microsoft" -> "microsoft"
      [] w = "Report"    -> "report"
      [] w = "View"      -> "view"
      [] OTHER           -> w

lower(t) == [k \in 1..Len(t) |-> LowerTok(t[k])]

\* str.strip()
RECURSIVE strip(_)
strip(t) ==
    IF t = << >> THEN t
    ELSE IF Head(t) = " " THEN strip(Tail(t))
    ELSE IF t[Len(t)] = " " THEN strip(SubSeq(t, 1, Len(t) - 1))
    ELSE t

BAD_EXACT ==
    { <<"microsoft", " ", "power", " ", "bi">>, <<"power", " ", "bi">>,
      <<"view", " ", "report">>, <<"report">>, <<"dashboard">>, <<"sign", " ", "in">>,
      <<"home">>, <<"sheet">>, <<"show", " ", "filters">>,
      <<"navigating", " ", "to", " ", "visual">>, <<"use", " ", "ctrl">>,
      <<"press", " ", "ctrl">>, <<"press", " ", "enter">>,
      <<"skip", " ", "to", " ", "report">>, <<"skip", " ", "to", " ", "main", " ", "content">> }

BAD_SUBSTR ==
    { <<"navigating", " ", "to", " ", "visual">>, <<"use", " ", "ctrl">>,
      <<"press", " ", "ctrl">>, <<"keyboard", " ", "shortcut">>,
      <<"skip", " ", "to", " ", "report">>, <<"skip", " ", "to", " ", "main", " ", "content">>,
      <<"aria-live">> }

\* sub in low
Contains(low, sub) ==
    \E i \in 1..Len(low) :
        i + Len(sub) - 1 <= Len(low) /\ SubSeq(low, i, i + Len(sub) - 1) = sub

non_generic(txt) ==
    LET low == lower(strip(txt))
    IN  /\ low # << >>
        /\ low \notin BAD_EXACT
        /\ \A sub \in BAD_SUBSTR : ~Contains(low, sub)

\* the vendor suffixes the two patterns of _sanitize_vendor_title match
VendorSuffixes ==
    { <<"-", " ", "microsoft", " ", "power", " ", "bi">>,
      <<"|", " ", "microsoft", " ", "power", " ", "bi">>,
      <<"-", " ", "power", " ", "bi">> }

\* re.sub(pattern + ".*$", "", s).strip(): the text up to the first suffix
sanitize_vendor_title(s) ==
    LET low  == lower(s)
        hits == { i \in 1..Len(s) : \E v \in VendorSuffixes :
                      i + Len(v) - 1 <= Len(s) /\ SubSeq(low, i, i + Len(v) - 1) = v }
    IN  IF hits = {} THEN strip(s)
        ELSE strip(SubSeq(s, 1, (CHOOSE i \in hits : \A j \in hits : i <= j) - 1))

\* _sanitize_filename: spaces become "_"; trailing ".", "_", "-" go; the
\* empty name is "untitled"
RECURSIVE rstrip_marks(_)
rstrip_marks(t) ==
    IF t # << >> /\ t[Len(t)] \in {".", "_", "-"} THEN rstrip_marks(SubSeq(t, 1, Len(t) - 1))
    ELSE t

sanitize_filename(s) ==
    LET t == strip(s)
        u == [k \in 1..Len(t) |-> IF t[k] \in {" ", "|"} THEN "_" ELSE t[k]]
    IN  rstrip_marks(IF u = << >> THEN <<"untitled">> ELSE u)

\* the score of _pick_best_text
text_score(t) == CharLen(t) + (IF HasSpace(t) THEN 3 ELSE 0)

\* _pick_best_text: the non-generic text of the highest score, << >> for
\* None (texts of equal score are equal in the texts drawn here)
pick_best_text(cands) ==
    LET ok == { k \in 1..Len(cands) : cands[k] # << >> /\ non_generic(strip(cands[k])) }
    IN  IF ok = {} THEN << >>
        ELSE strip(cands[CHOOSE k \in ok : \A j \in ok : text_score(strip(cands[j])) <= text_score(strip(cands[k]))])

MIN_STYLE_LEN == 4

\* _guess_title_by_style for one text node in the top part of the frame
guess_title_by_style(node) ==
    IF CharLen(strip(node)) < MIN_STYLE_LEN \/ ~non_generic(strip(node)) THEN << >> ELSE strip(node)

\* the last path segment, "view" dropped, else the host, else "report"
url_fallback(seg, netloc) ==
    LET s == IF lower(seg) = <<"view">> THEN << >> ELSE seg
    IN  sanitize_filename(IF s # << >> THEN s ELSE IF netloc # << >> THEN netloc ELSE <<"report">>)

\* add(): the non-empty stripped texts in the order they are collected
RECURSIVE collected(_)
collected(texts) ==
    IF texts = << >> THEN << >>
    ELSE IF strip(Head(texts)) = << >> THEN collected(Tail(texts))
    ELSE << strip(Head(texts)) >> \o collected(Tail(texts))

detect_report_name(iframe, header, tab, title, node, seg, netloc) ==
    LET explicit == pick_best_text(collected(<<iframe, header, tab, sanitize_vendor_title(title)>>))
        guess    == guess_title_by_style(node)
    IN  IF explicit # << >>
        THEN [source |-> "explicit", text |-> explicit, name |-> sanitize_filename(explicit)]
        ELSE IF guess # << >> /\ non_generic(guess)
        THEN [source |-> "largest-top-text", text |-> guess, name |-> sanitize_filename(guess)]
        ELSE [source |-> "url-fallback", text |-> url_fallback(seg, netloc),
              name |-> url_fallback(seg, netloc)]

PageTexts == { << >>, <<"Sales">>, <<"Sales", " ", "KPI">>, <<"Power", " ", "BI">> }
TitleTexts == PageTexts \cup { <<"Sales", " ", "-", " ", "Power", " ", "BI">> }
PathSegs == { << >>, <<"view">>, <<"report">>, <<"sales">> }
NETLOC == <<"app.powerbi.com">>

InitReportName ==
    /\ InitTables
    /\ arg \in { [f |-> "_detect_report_name", iframe |-> a, header |-> b, tab |-> c,
                   title |-> t, node |-> n, seg |-> s] :
                   a \in PageTexts, b \in PageTexts, c \in PageTexts,
                   t \in TitleTexts, n \in PageTexts, s \in PathSegs }

DetectReportName ==
    /\ arg.f = "_detect_report_name"
    /\ last.op = "none"
    /\ last' = [op |-> "_detect_report_name",
                out |-> detect_report_name(arg.iframe, arg.header, arg.tab, arg.title,
                                           arg.node, arg.seg, NETLOC)]
    /\ UNCHANGED <<pairTbl, cmpTbl, sgTbl, clock, wr, raced, scratch, sgRet, ext>>

NextReportName == DetectReportName

SpecReportName == InitReportName /\ [][NextReportName]_vars

(* ======================= claims on the pair table ====================== *)
SameKey(r1, r2) ==
    /\ r1.widget_id_left = r2.widget_id_left
    /\ r1.widget_id_right = r2.widget_id_right

\* the row carries these session ids and this pair number
Carries(row, left_sess, right_sess, pair_number) ==
    <<row.left_session_id, row.right_session_id, row.pair_number>>
        = <<left_sess, right_sess, pair_number>>

CurrentOfKey(tbl, widget_left, widget_right) ==
    { i \in 1..Len(tbl) : /\ tbl[i].widget_id_left = widget_left
                          /\ tbl[i].widget_id_right = widget_right
                          /\ tbl[i].curr_rec_ind = TRUE }

RowsOfKey(tbl, widget_left, widget_right) ==
    { i \in 1..Len(tbl) : /\ tbl[i].widget_id_left = widget_left
                          /\ tbl[i].widget_id_right = widget_right }

\* the step is a scd2_upsert_pair call that returned (last' describes it)
PairCallReturned ==
    /\ <<last, pairTbl>>' # <<last, pairTbl>>
    /\ last'.op = "pair"
    /\ last'.action # "raised"

\* C1: after any sequence of non-interleaved scd2_upsert_pair submissions,
\* every natural key (widget_id_left, widget_id_right) has at most one row
\* with curr_rec_ind = true.
C1_OneCurrentPerKey ==
    \A i, j \in 1..Len(pairTbl) :
        (SameKey(pairTbl[i], pairTbl[j]) /\ pairTbl[i].curr_rec_ind /\ pairTbl[j].curr_rec_ind)
            => i = j

C1_Witness ==
    \E i, j \in 1..Len(pairTbl) :
        /\ SameKey(pairTbl[i], pairTbl[j])
        /\ ~pairTbl[i].curr_rec_ind
        /\ pairTbl[j].curr_rec_ind

\* C3: a submission whose session ids and pair number equal those of the
\* key's current row changes no row and returns 'unchanged' with that row's
\* pair_id; the rows of the key stay as many as they were.
C3_IdenticalIsNoOp ==
    [][ PairCallReturned =>
          \A r \in CurrentOfKey(pairTbl, last'.wl, last'.wrt) :
              Carries(pairTbl[r], last'.ls, last'.rs, last'.pn) =>
                  /\ pairTbl' = pairTbl
                  /\ last'.action = "unchanged"
                  /\ last'.pair_id = pairTbl[r].pair_id
                  /\ RowsOfKey(pairTbl', last'.wl, last'.wrt) = RowsOfKey(pairTbl, last'.wl, last'.wrt)
      ]_vars

C3_Witness ==
    /\ last.op = "pair"
    /\ last.action = "unchanged"
    /\ Cardinality(RowsOfKey(pairTbl, last.wl, last.wrt)) = 1
    /\ pairTbl[last.pair_id].curr_rec_ind

\* C4: a returned call for a key whose current row differs from the submitted
\* session ids or pair number leaves that row non-current with an end
\* timestamp, appends exactly one current row carrying the submitted payload
\* and returns 'inserted'; a returned call for a key with no row appends
\* exactly one current row and modifies no existing row.
NewRowIs(tbl, widget_left, widget_right, left_sess, right_sess, pair_number) ==
    LET n == tbl[Len(tbl)]
    IN  /\ n.widget_id_left = widget_left
        /\ n.widget_id_right = widget_right
        /\ Carries(n, left_sess, right_sess, pair_number)
        /\ n.curr_rec_ind
        /\ n.rec_eff_end_dt = NoTime

C4_Changed ==
    \A r \in CurrentOfKey(pairTbl, last'.wl, last'.wrt) :
        ~Carries(pairTbl[r], last'.ls, last'.rs, last'.pn) =>
            /\ last'.action = "inserted"
            /\ Len(pairTbl') = Len(pairTbl) + 1
            /\ last'.pair_id = Len(pairTbl')
            /\ NewRowIs(pairTbl', last'.wl, last'.wrt, last'.ls, last'.rs, last'.pn)
            /\ ~pairTbl'[r].curr_rec_ind
            /\ pairTbl'[r].rec_eff_end_dt # NoTime
            /\ pairTbl'[r] = [pairTbl[r] EXCEPT !.curr_rec_ind = FALSE,
                                                !.rec_eff_end_dt = pairTbl'[r].rec_eff_end_dt]
            /\ \A i \in 1..Len(pairTbl) : i # r => pairTbl'[i] = pairTbl[i]

C4_Unknown ==
    RowsOfKey(pairTbl, last'.wl, last'.wrt) = {} =>
        /\ last'.action = "inserted"
        /\ Len(pairTbl') = Len(pairTbl) + 1
        /\ last'.pair_id = Len(pairTbl')
        /\ NewRowIs(pairTbl', last'.wl, last'.wrt, last'.ls, last'.rs, last'.pn)
        /\ \A i \in 1..Len(pairTbl) : pairTbl'[i] = pairTbl[i]

C4_ChangedEndDatesAndInserts ==
    [][ PairCallReturned => (C4_Changed /\ C4_Unknown) ]_vars

C4_Witness ==
    /\ last.op = "pair"
    /\ last.action = "inserted"
    /\ \E i \in 1..Len(pairTbl) :
          /\ i # last.pair_id
          /\ SameKey(pairTbl[i], pairTbl[last.pair_id])
          /\ ~pairTbl[i].curr_rec_ind
          /\ pairTbl[i].rec_eff_end_dt # NoTime
          /\ ~Carries(pairTbl[i], last.ls, last.rs, last.pn)

\* C5: in every state of the pair-mapping table and of the compare-result
\* table, every row with curr_rec_ind = false has an end timestamp that is
\* set and not later than the current time (so no step clears the flag
\* without setting the timestamp).
EndDated(tbl) ==
    \A i \in 1..Len(tbl) :
        ~tbl[i].curr_rec_ind =>
            (tbl[i].rec_eff_end_dt # NoTime /\ tbl[i].rec_eff_end_dt <= clock)

C5_NonCurrentRowsEndDated == EndDated(pairTbl) /\ EndDated(cmpTbl)

C5_Witness ==
    /\ \E i \in 1..Len(pairTbl) : ~pairTbl[i].curr_rec_ind /\ pairTbl[i].rec_eff_end_dt < clock
    /\ \E i \in 1..Len(cmpTbl) : ~cmpTbl[i].curr_rec_ind /\ cmpTbl[i].rec_eff_end_dt < clock

\* C2: scd2_upsert_pair is a read / end-date / insert sequence that is not
\* atomic: two rows of one natural key are current only after two writers'
\* steps on that key interleaved (one read the key while the other was
\* between its read and its insert), and such a state is reachable.
TwoCurrent(widget_left, widget_right) ==
    \E i, j \in CurrentOfKey(pairTbl, widget_left, widget_right) : i # j

C2_TwoCurrentOnlyByInterleaving ==
    \A widget_left \in CallLeft, widget_right \in CallRight :
        TwoCurrent(widget_left, widget_right) => <<widget_left, widget_right>> \in raced

C2_Witness ==
    \E widget_left \in CallLeft, widget_right \in CallRight :
        /\ TwoCurrent(widget_left, widget_right)
        /\ <<widget_left, widget_right>> \in raced

(* ===================== claims on the pairing batch ===================== *)
NumLeft(k)  == { w \in LeftIds : map_scratch_left[w] = k }
NumRight(k) == { w \in RightIds : map_scratch_right[w] = k }

OneToOne(k) == k > 0 /\ Cardinality(NumLeft(k)) = 1 /\ Cardinality(NumRight(k)) = 1

UsedNumber(k) == k > 0 /\ (NumLeft(k) # {} \/ NumRight(k) # {})

ReportedAsIssue(k) ==
    \E n \in 1..Len(last'.issues) :
        /\ last'.issues[n].pair_number = k
        /\ last'.issues[n].left_ids = NumLeft(k)
        /\ last'.issues[n].right_ids = NumRight(k)

NothingWrittenFor(k) ==
    \A i \in 1..Len(pairTbl') :
        \/ /\ i <= Len(pairTbl)
           /\ pairTbl'[i] = pairTbl[i]
        \/ /\ ~(pairTbl'[i].widget_id_left \in NumLeft(k) /\ pairTbl'[i].widget_id_right \in NumRight(k))
           /\ i > Len(pairTbl) => pairTbl'[i].pair_number # k

CommittedPair(k) ==
    \E i \in 1..Len(pairTbl') :
        /\ pairTbl'[i].curr_rec_ind
        /\ pairTbl'[i].widget_id_left \in NumLeft(k)
        /\ pairTbl'[i].widget_id_right \in NumRight(k)
        /\ pairTbl'[i].pair_number = k

\* C6: on a pairing batch submission an upsert is issued for pair number k
\* if and only if k > 0 and exactly one left and exactly one right widget
\* carry k; every other used number is reported as an issue with its number
\* and widget ids, and no row is written or modified for it.
C6_UpsertIffOneToOne ==
    [][ last'.op = "batch" =>
          /\ \A k \in ScratchNos : (k \in last'.issued) <=> OneToOne(k)
          /\ \A k \in PairNos :
                (UsedNumber(k) /\ ~OneToOne(k)) => (ReportedAsIssue(k) /\ NothingWrittenFor(k))
      ]_vars

\* C7: every valid 1:1 pair number of a batch is committed whatever happens
\* to the other numbers of the batch, be another number ambiguous or its
\* upsert failing in the store.
C7_PerPairIsolation ==
    [][ last'.op = "batch" =>
          \A k \in PairNos : (OneToOne(k) /\ last'.raised # k) => CommittedPair(k)
      ]_vars

(* ==================== claims on the screengrab table =================== *)
StoredWithHash(tbl, b) ==
    { i \in 1..Len(tbl) : tbl[i].screengrab_hashvalue = <<"sha256", b>> }

\* C8: two upsert_screengrab calls with byte-identical full_png_bytes return
\* the same screengrab_id, and exactly one row with that content hash is
\* left in the table.
C8_SameBytesSameId ==
    \A r1, r2 \in sgRet :
        (r1.bytes \in Contents /\ r1.bytes = r2.bytes) =>
            /\ r1.id = r2.id
            /\ Cardinality(StoredWithHash(sgTbl, r1.bytes)) = 1

\* C9: at most one screengrab row of a source URL has curr_rec_ind = true.
C9_OneCurrentPerUrl ==
    \A i, j \in 1..Len(sgTbl) :
        (sgTbl[i].url = sgTbl[j].url /\ sgTbl[i].curr_rec_ind /\ sgTbl[j].curr_rec_ind)
            => i = j

Carried(message) == { message[k] : k \in 1..Len(message) }

\* C11: when the chromium attempt and the webkit attempt of capture_url both
\* fail, capture_url raises one error whose message carries the failure
\* message of each of the two attempts, and returns no result.
C11_AllFailuresAggregated ==
    (last.op = "capture" /\ \A i \in 1..Len(Engines) : last.attempts[i] # "ok") =>
        /\ last.outcome = "raised"
        /\ last.screengrab = <<>>
        /\ \A i \in 1..Len(Engines) : <<Engines[i], last.attempts[i]>> \in Carried(last.message)

(* ====================== claims on value extraction ===================== *)
\* the text between the first "{" and the last "}", both included
BraceSlice(text) ==
    LET opens  == { i \in 1..Len(text) : text[i] = "{" }
        closes == { i \in 1..Len(text) : text[i] = "}" }
    IN  IF opens = {} \/ closes = {} THEN << >>
        ELSE LET a == CHOOSE i \in opens : \A j \in opens : i <= j
                 b == CHOOSE i \in closes : \A j \in closes : i >= j
             IN  IF a <= b THEN SubSeq(text, a, b) ELSE << >>

IsJsonObject(text) == text = <<"{", "}">> \/ text = <<"{", "p", "}">>

Unparseable(text) == ~IsJsonObject(text) /\ ~IsJsonObject(BraceSlice(text))

\* C14: for a response that parses neither directly nor as its slice from
\* the first "{" to the last "}", the extraction step reports an error for
\* the widget, uploads no audit JSON and inserts no extraction row.
C14_ParseErrorPersistsNothing ==
    [][ (last'.op \in {"parse", "process_session"} /\ Unparseable(arg.raw_text)) =>
          /\ last'.status # "ok"
          /\ extTbl' = extTbl
          /\ audit' = audit
      ]_vars

C14_Witness ==
    /\ last.op = "parse"
    /\ last.status = "non-JSON"
    /\ Unparseable(arg.raw_text)
    /\ Len(arg.raw_text) = MaxRaw
    /\ arg.raw_text[1] = "x" /\ arg.raw_text[2] = "{" /\ arg.raw_text[4] = "}"

(* ================= claims on the compare-result table ================== *)
SameCompareKey(r1, r2) ==
    /\ r1.pair_id = r2.pair_id
    /\ r1.left_extraction_id = r2.left_extraction_id
    /\ r1.right_extraction_id = r2.right_extraction_id
    /\ r1.model_name = r2.model_name

\* C15: after any sequence of scd2_upsert_compare calls, at most one row of
\* a natural key (pair_id, left_extraction_id, right_extraction_id,
\* model_name) is current, also when the end-dating update of a call fails.
C15_OneCurrentComparePerKey ==
    \A i, j \in 1..Len(cmpTbl) :
        (SameCompareKey(cmpTbl[i], cmpTbl[j]) /\ cmpTbl[i].curr_rec_ind /\ cmpTbl[j].curr_rec_ind)
            => i = j

SameComparePayload(r1, r2) ==
    /\ r1.verdict = r2.verdict
    /\ r1.confidence = r2.confidence

\* C16: a scd2_upsert_compare call whose payload is identical to the current
\* row of its natural key adds no row and end-dates none: a call adds a row
\* only when no current row of the key carries the same payload.
C16_IdenticalCompareIsNoOp ==
    [][ (last'.op = "compare" /\ Len(cmpTbl') = Len(cmpTbl) + 1) =>
          \A i \in 1..Len(cmpTbl) :
              (cmpTbl[i].curr_rec_ind /\ SameCompareKey(cmpTbl[i], cmpTbl'[Len(cmpTbl')]))
                  => ~SameComparePayload(cmpTbl[i], cmpTbl'[Len(cmpTbl')])
      ]_vars

(* =================== claims on compare_pair_by_row ===================== *)
ExtRowsOf(tbl, widget_id) == { i \in 1..Len(tbl) : tbl[i].widget_id = widget_id }

\* the extraction of the widget with the greatest created_at
NewestExt(tbl, widget_id) ==
    CHOOSE i \in ExtRowsOf(tbl, widget_id) :
        \A j \in ExtRowsOf(tbl, widget_id) : tbl[i].created_at >= tbl[j].created_at

NoUsableExtraction(tbl, widget_id) ==
    \/ ExtRowsOf(tbl, widget_id) = {}
    \/ tbl[NewestExt(tbl, widget_id)].values = {}

\* C12: when a widget of the pair has no extraction row, or its latest
\* extraction has an empty value payload, compare_pair_by_row returns an
\* error naming the pair id, does not invoke the oracle, and neither writes
\* nor end-dates a compare-result row.
C12_MissingExtractionIsError ==
    [][ ( /\ last'.op = "compare_pair"
          /\ last'.pair_row.widget_id_left # ""
          /\ last'.pair_row.widget_id_right # ""
          /\ \/ NoUsableExtraction(extTbl, last'.pair_row.widget_id_left)
             \/ NoUsableExtraction(extTbl, last'.pair_row.widget_id_right) ) =>
          /\ last'.kind = "error"
          /\ last'.pair_id = last'.pair_row.pair_id
          /\ last'.llm_calls = 0
          /\ cmpTbl' = cmpTbl
      ]_vars

PairRowOf(pair_id) == CHOOSE p \in PairRowsIn : p.pair_id = pair_id

\* an extraction row with this id that belongs to the widget and holds a
\* non-empty value payload
UsableExtraction(tbl, extraction_id, widget_id) ==
    \E i \in 1..Len(tbl) : /\ tbl[i].extraction_id = extraction_id
                           /\ tbl[i].widget_id = widget_id
                           /\ tbl[i].values # {}

\* C13: every compare-result row written by compare_pair_by_row references
\* a left and a right extraction that exist, belong to the left and the
\* right widget of the row's pair, and hold non-empty value payloads.
C13_CompareRowsReferenceExtractions ==
    \A k \in 1..Len(cmpTbl) :
        /\ UsableExtraction(extTbl, cmpTbl[k].left_extraction_id,
                            PairRowOf(cmpTbl[k].pair_id).widget_id_left)
        /\ UsableExtraction(extTbl, cmpTbl[k].right_extraction_id,
                            PairRowOf(cmpTbl[k].pair_id).widget_id_right)

C13_Witness ==
    /\ last.op = "compare_pair"
    /\ last.kind = "result"
    /\ Len(cmpTbl) > 0
    /\ \E i \in ExtRowsOf(extTbl, "w1") : extTbl[i].values = {}
    /\ \E i \in ExtRowsOf(extTbl, "w1") : extTbl[i].extraction_id = cmpTbl[Len(cmpTbl)].left_extraction_id

\* C17: whatever JSON object the oracle answers, the result of
\* _call_llm_compare and every compare-result row persisted from it has a
\* verdict in {Matched, NotMatched} (NotMatched for every answer other than
\* those two) and a confidence between 0 and 1.
C17_VerdictAndConfidenceCoerced ==
    /\ (last.op = "compare_pair" /\ last.llm_calls = 1 /\ last.response.parses) =>
          /\ last.out.verdict \in {"Matched", "NotMatched"}
          /\ last.response.verdict \notin {"Matched", "NotMatched"} => last.out.verdict = "NotMatched"
          /\ last.response.verdict \in {"Matched", "NotMatched"} => last.out.verdict = last.response.verdict
          /\ 0 <= last.out.confidence /\ last.out.confidence <= 100
    /\ \A k \in 1..Len(cmpTbl) :
          /\ cmpTbl[k].verdict \in {"Matched", "NotMatched"}
          /\ 0 <= cmpTbl[k].confidence /\ cmpTbl[k].confidence <= 100

C17_Witness ==
    /\ last.op = "compare_pair"
    /\ last.kind = "result"
    /\ last.response.verdict = "matched"
    /\ last.response.confidence = [kind |-> "number", v |-> 150]
    /\ cmpTbl[Len(cmpTbl)].verdict = "NotMatched"
    /\ cmpTbl[Len(cmpTbl)].confidence = 100

(* ======================= claims on deduplication ======================= *)
\* the areas of the intersection and of the union of two boxes
Overlap(a, b) ==
    LET wx == Min2(a[1] + a[3], b[1] + b[3]) - Max2(a[1], b[1])
        wy == Min2(a[2] + a[4], b[2] + b[4]) - Max2(a[2], b[2])
        inter == IF wx > 0 /\ wy > 0 THEN wx * wy ELSE 0
    IN  [inter |-> inter, union |-> a[3] * a[4] + b[3] * b[4] - inter]

\* IoU(a, b) > pct / 100
IoUAbove(a, b, pct) == Overlap(a, b).inter * 100 > pct * Overlap(a, b).union

TopLeftOrdered(list) ==
    \A i, j \in 1..Len(list) :
        i < j => \/ list[i].box[2] < list[j].box[2]
                 \/ (list[i].box[2] = list[j].box[2] /\ list[i].box[1] <= list[j].box[1])

\* every element of list is an element of its own of cands
DrawnFrom(list, cands) ==
    \E f \in [1..Len(list) -> 1..Len(cands)] :
        /\ \A i, j \in 1..Len(list) : i # j => f[i] # f[j]
        /\ \A i \in 1..Len(list) : list[i] = cands[f[i]]

\* C18: the kept list holds no two boxes of the same selector kind with an
\* IoU above 0.72, and it is a subsequence of the candidates sorted by
\* (top edge, left edge).
C18_KeptSameKindApart ==
    last.op = "dedupe" =>
        /\ \A i, j \in 1..Len(last.kept) :
              (i # j /\ last.kept[i].kind = last.kept[j].kind)
                  => ~IoUAbove(last.kept[i].box, last.kept[j].box, 72)
        /\ TopLeftOrdered(last.kept)
        /\ DrawnFrom(last.kept, arg.candidates)

C18_Witness ==
    /\ last.op = "dedupe"
    /\ Len(arg.candidates) = MaxCands
    /\ Len(last.kept) = 2
    /\ last.kept[1].kind = last.kept[2].kind
    /\ IoUAbove(last.kept[1].box, last.kept[2].box, 65)
    /\ last.kept[1] # arg.candidates[1]

\* C19: whenever a container box and a role or primitive box have an IoU
\* above 0.65, the kept list does not contain both, whichever of the two
\* comes first in (top, left) order.
C19_ContainerWinsOverPrimitive ==
    last.op = "dedupe" =>
        \A i, j \in 1..Len(last.kept) :
            (last.kept[i].kind = "container" /\ last.kept[j].kind \in {"role", "primitive"})
                => ~IoUAbove(last.kept[i].box, last.kept[j].box, 65)

(* ======================== claims on score_widget ======================= *)
\* C20: for every selector kind, box and title flag, the quality_score that
\* score_widget returns lies in [0, 1], and quality is "good" exactly when
\* the returned quality_score is at least 0.60.
C20_GoodIffScoreAtLeastThreshold ==
    last.op = "score_widget" =>
        /\ 0 <= last.quality_score /\ last.quality_score <= 1000
        /\ last.quality = "good" <=> last.quality_score >= 600

(* ================= claims on the latest extraction ===================== *)
\* C24: whatever the order of the extraction runs and of the construction
\* of the cached comparator, the extraction rows compare_pair_by_row reads
\* for the widgets of the pair, and the row the mapping gate reads for a
\* widget, are the ones with the greatest created-at timestamp.
C24_ReadersTakeNewestExtraction ==
    [][ /\ ( last'.op = "compare_pair" /\ Len(cmpTbl') > Len(cmpTbl) ) =>
             /\ cmpTbl'[Len(cmpTbl')].left_extraction_id
                  = extTbl[NewestExt(extTbl, last'.pair_row.widget_id_left)].extraction_id
             /\ cmpTbl'[Len(cmpTbl')].right_extraction_id
                  = extTbl[NewestExt(extTbl, last'.pair_row.widget_id_right)].extraction_id
        /\ ( last'.op = "latest_extract" /\ ExtRowsOf(extTbl, last'.widget_id) # {} ) =>
             last'.row = NewestExt(extTbl, last'.widget_id)
      ]_vars

(* =================== claims on the engine attempts ===================== *)
Events(log, kind, engine) == { k \in 1..Len(log) : log[k] = <<kind, engine>> }
EventsOfKind(log, kind) == { k \in 1..Len(log) : log[k][1] = kind }

\* C26: capture_url tries the engines one at a time, chromium first: the
\* webkit attempt starts only after the chromium attempt has failed, each
\* engine is tried at most once, no attempt starts after an attempt has
\* returned, and capture_url returns a result exactly when an attempt
\* returned, that attempt being the last one made.
C26_SequentialFallback ==
    last.op = "capture" =>
        /\ Events(last.log, "try", "chromium") = {1}
        /\ Cardinality(Events(last.log, "try", "webkit")) <= 1
        /\ \A k \in Events(last.log, "try", "webkit") :
              \E j \in Events(last.log, "raised", "chromium") : j < k
        /\ \A r \in EventsOfKind(last.log, "returned") :
              \A k \in EventsOfKind(last.log, "try") : k < r
        /\ Cardinality(EventsOfKind(last.log, "returned")) <= 1
        /\ (last.outcome = "returned") <=> (EventsOfKind(last.log, "returned") # {})
        /\ (last.outcome = "returned") <=> (Len(last.screengrab) = 1)
        /\ (last.outcome = "raised") <=>
              (Events(last.log, "raised", "chromium") # {} /\ Events(last.log, "raised", "webkit") # {})

C26_Witness ==
    /\ last.op = "capture"
    /\ last.outcome = "returned"
    /\ Events(last.log, "raised", "chromium") # {}
    /\ Events(last.log, "returned", "webkit") # {}

C30_ReturnedRowIsStored ==
    /\ last.op \in {"sg", "scan"} => \E i \in 1..Len(sgTbl) : sgTbl[i] = last.row
    /\ \A r \in sgRet : \E i \in 1..Len(sgTbl) : sgTbl[i].screengrab_id = r.id

(* ===================== claims on re-paired widgets ===================== *)
\* C29: after any sequence of pairing batches, a widget id is the left
\* widget of at most one current pair-mapping row and the right widget of
\* at most one current pair-mapping row.
C29_WidgetInOneCurrentPair ==
    \A i, j \in 1..Len(pairTbl) :
        ( /\ pairTbl[i].curr_rec_ind /\ pairTbl[j].curr_rec_ind
          /\ \/ pairTbl[i].widget_id_left = pairTbl[j].widget_id_left
             \/ pairTbl[i].widget_id_right = pairTbl[j].widget_id_right )
            => i = j

(* ====================== claims on Parse batches ======================== *)
\* C25: in a Parse batch a failure for one widget, at whatever step, is
\* reported for that widget alone: every selected widget gets its own
\* outcome, and every widget none of whose steps fails is persisted.
C25_FailureDoesNotStopBatch ==
    [][ last'.op \in {"parse_batch", "session_batch"} =>
          /\ Len(last'.statuses) = Len(last'.selected)
          /\ \A k \in 1..Len(last'.selected) :
                ( /\ parse_llm_json(arg.raw_text).ok
                  /\ \/ last'.faults[k] = "none"
                     \/ (last'.faults[k] = "upload" /\ ~last'.save_json_files) ) =>
                    \E i \in (Len(extTbl) + 1)..Len(extTbl') :
                        extTbl'[i].widget_id = last'.selected[k]
      ]_vars

(* ======================= claims on the retry loop ====================== *)
Calls(log)  == { k \in 1..Len(log) : log[k][1] = "call" }
Sleeps(log) == { k \in 1..Len(log) : log[k][1] = "sleep" }
Errors(log) == { k \in 1..Len(log) : log[k][1] = "st.error" }

\* the calls that fail before the first one that returns, 3 when none does
FailuresBeforeSuccess(outcomes) ==
    IF \E i \in 1..3 : outcomes[i] = "returns"
    THEN (CHOOSE i \in 1..3 : outcomes[i] = "returns" /\ \A j \in 1..(i - 1) : outcomes[j] = "raises") - 1
    ELSE 3

\* C27: the oracle is called at most 3 times per widget and the loop ends;
\* it stops at the first call that returns; a wait of 1.5 s follows every
\* failed call but the third, and nothing follows a wait but the next
\* call; exactly when the third call has failed the failure is shown, the
\* widget is skipped and nothing is persisted for it.
C27_BoundedRetryWithBackoff ==
    [][ last'.op = "retry" =>
          LET log == last'.log
              n   == FailuresBeforeSuccess(last'.outcomes)
          IN  /\ Cardinality(Calls(log)) = (IF n = 3 THEN 3 ELSE n + 1)
              /\ Cardinality(Calls(log)) <= 3
              /\ Cardinality(Sleeps(log)) = (IF n = 3 THEN 2 ELSE n)
              /\ \A k \in Sleeps(log) :
                    /\ log[k][2] = 15
                    /\ k > 1 /\ log[k - 1][1] = "call"
                    /\ k < Len(log) /\ log[k + 1][1] = "call"
              /\ (n = 3) <=> (Errors(log) # {})
              /\ (n = 3) <=> (last'.status = "extraction failed")
              /\ (n = 3) => (Errors(log) = {Len(log)} /\ extTbl' = extTbl /\ audit' = audit)
      ]_vars

C27_Witness ==
    /\ last.op = "retry"
    /\ \A i \in 1..3 : last.outcomes[i] = "raises"
    /\ last.status = "extraction failed"
    /\ Len(extTbl) > 0

(* ==================== claims on compare_json_values ==================== *)
HasPoint(vals) == \E k \in 1..Len(vals) : ~vals[k].y_is_none

NoCommonX(vals_a, vals_b) ==
    \A i \in 1..Len(vals_a), j \in 1..Len(vals_b) :
        (~vals_a[i].y_is_none /\ ~vals_b[j].y_is_none) => vals_a[i].x # vals_b[j].x

\* C22: two identical copies of a non-empty series give corr = 1.0,
\* MAPE = 0.0 and the verdict consistent, whatever the series (one point,
\* constant y, y = 0 included); two series whose inner join on x is empty
\* give the verdict no_overlap.
C22_IdenticalSeriesConsistent ==
    last.op = "compare_json_values" =>
        /\ (arg.vals_a = arg.vals_b /\ HasPoint(arg.vals_a)) =>
              /\ last.out.raised = ""
              /\ last.out.corr_is_one
              /\ last.out.mape_is_zero
              /\ last.out.verdict = "consistent"
        /\ NoCommonX(arg.vals_a, arg.vals_b) =>
              (last.out.raised = "" /\ last.out.verdict = "no_overlap")

(* ====================== claims on widget detection ===================== *)
AtLeastMin(w) == w.pre[3] >= MIN_W /\ w.pre[4] >= MIN_H

\* C21: every widget a detection pass stores (Power BI extractor, Tableau
\* extractor, scan page) has a box, before padding, at least MIN_W wide and
\* MIN_H high.
C21_StoredWidgetsAtLeastMin ==
    last.op \in {"power_bi", "tableau", "scan"} =>
        \A k \in 1..Len(last.widgets) : AtLeastMin(last.widgets[k])

(* ==================== claims on the report name ======================= *)
\* the candidate text of each tier, highest first: iframe, header, active
\* tab, page title, style guess
TierTexts ==
    << strip(arg.iframe), strip(arg.header), strip(arg.tab),
       sanitize_vendor_title(arg.title), guess_title_by_style(arg.node) >>

FirstTier == { i \in 1..Len(TierTexts) :
                 /\ non_generic(TierTexts[i])
                 /\ \A j \in 1..(i - 1) : ~non_generic(TierTexts[j]) }

\* C23: the report name is the text of the first tier, in the order iframe,
\* header, active tab, page title, style guess, URL segment, that yields a
\* non-generic text: no lower tier displaces it; and the text returned is
\* never a denylisted phrase.
C23_StrictPriorityNoGeneric ==
    last.op = "_detect_report_name" =>
        /\ \A i \in FirstTier :
              /\ last.out.text = TierTexts[i]
              /\ last.out.name = sanitize_filename(TierTexts[i])
        /\ FirstTier = {} => last.out.source = "url-fallback"
        /\ non_generic(last.out.text)

====
